---------------------------- MODULE Spec2Model ----------------------------
(***************************************************************************)
(* Verification model of the mpenc_js core:                                *)
(*   - BaseTranscript (src/src/mpenc/impl/transcript.js): the causal-order *)
(*     message graph with acknowledgement tracking;                        *)
(*   - SignatureKeyExchangeMember (src/src/ske.js): the authenticated      *)
(*     signature key exchange, and its session-ID function _computeSid;    *)
(*   - DefaultMessageLog (src/src/mpenc/impl/transcript.js): the linear    *)
(*     sequence of the payload messages of the subscribed transcripts;     *)
(*   - the TLV codec (mpenc.codec), as the specification describes it.     *)
(* Each part has its own specification over its own variables, the other   *)
(* parts' variables staying unchanged: SpecT (add() calls), SpecTF (add()  *)
(* calls whose update phase may raise), SpecTQ (add() and the cached       *)
(* queries by() and unacked()), SpecSke (a key exchange), SpecSkeF (a key  *)
(* exchange with one tampered message), SpecSid (_computeSid on its own),  *)
(* SpecLog (subscriptions to a message log and deliveries), SpecTlv (a TLV *)
(* unit encoded and decoded).                                              *)
(*                                                                         *)
(* An object is a record of its fields; a method takes the object as its   *)
(* first parameter (JavaScript's this) and, when it changes the object,    *)
(* gives the changed object back.                                          *)
(***************************************************************************)
EXTENDS Integers, Sequences, FiniteSets, TLC

(***************************************************************************)
(* Bounds of the model.                                                    *)
(***************************************************************************)
\* most messages a transcript accepts
MaxMsgs == 4

\* most subscriber invocations on a message log that return
LogMaxDeliveries == 3

\* most bytes of a short TLV value and of the bytes that follow a unit
TlvMaxLen == 2

(***************************************************************************)
(* Values.                                                                 *)
(***************************************************************************)
\* user ids handed to the transcript
Users == {"A", "B"}
\* JavaScript null as a user id
NullU == "null"
\* JavaScript null as a message id / context entry
NullM == 0
\* Map.has(u) === false while a context is being merged
Absent == -1
\* JavaScript null where an array of message ids is expected
NullMIds == <<NullM>>

\* JavaScript strings are sequences of character codes.
\* JavaScript null where a string is expected; it concatenates as "null"
NullStr == <<0>>
\* nonces[i] beyond the end of the array; it concatenates as "undefined"
UndefinedStr == <<0, 0>>

\* most members of a list handed to _computeSid
SidMaxMembers == 2
\* participant ids handed to _computeSid: "", "a", "b", "ab"
SidPids == {<<>>, <<1>>, <<2>>, <<1, 2>>}
\* nonces handed to _computeSid: "x", "y", "xx"
SidNonces == {<<7>>, <<8>>, <<7, 7>>}

\* the empty Map
EmptyMap == [x \in {} |-> x]

(***************************************************************************)
(* State.                                                                  *)
(***************************************************************************)
VARIABLES
    transcript,      \* the BaseTranscript object
    result           \* whether the last add() call on it threw, and what it returned

tvars == <<transcript, result>>

VARIABLES
    sidCall1,        \* first call of _computeSid: [members, nonces, sid]
    sidCall2,        \* second call, on a second pair of lists
    sidPc            \* "in": lists chosen; "one": first call made; "two": both

sidvars == <<sidCall1, sidCall2, sidPc>>

VARIABLES
    member,          \* pid -> the SignatureKeyExchangeMember object of that participant
    net,             \* messages under way: [to |-> pid, msg |-> message]
    skeGroup,        \* the member list of the key exchange started by commit()
    skePhase,        \* "idle", "new" (no exchange yet) or "started"
    skeStatus,       \* "none", or whether the last call returned ("ok") or threw ("error")
    skeAcks          \* pid -> the session ids the member has sent a signed broadcast for

skevars == <<member, net, skeGroup, skePhase, skeStatus, skeAcks>>

VARIABLES
    tlv             \* one run of the TLV codec: the unit, the bytes, the result

tlvvars == <<tlv>>

VARIABLES
    log,            \* the DefaultMessageLog
    logIgnored,     \* the messages of the transcripts that are no payload
    logDelivered,   \* the mIds of the subscriber invocations that returned
    logSubscribed,  \* per subscribed transcript: its parent and the frontier then
    logResult       \* the last call on the log and how it ended

logvars == <<log, logIgnored, logDelivered, logSubscribed, logResult>>

(***************************************************************************)
(* mpenc.ske._computeSid and the string operations it uses.                *)
(***************************************************************************)
\* a < b for strings, as Array.prototype.sort() compares them: by code units,
\* a proper prefix first
RECURSIVE StrLess(_, _)
StrLess(a, b) ==
    IF b = <<>> THEN FALSE
    ELSE IF a = <<>> THEN TRUE
    ELSE IF Head(a) # Head(b) THEN Head(a) < Head(b)
    ELSE StrLess(Tail(a), Tail(b))

\* seq with the string x put before its first element that is greater
RECURSIVE sortedInsert(_, _)
sortedInsert(seq, x) ==
    IF seq = <<>> THEN <<x>>
    ELSE IF StrLess(x, Head(seq)) THEN <<x>> \o seq
    ELSE <<Head(seq)>> \o sortedInsert(Tail(seq), x)

\* sortedMembers = members.concat(); sortedMembers.sort()
RECURSIVE sortStrings(_)
sortStrings(seq) ==
    IF seq = <<>> THEN <<>>
    ELSE sortedInsert(sortStrings(Tail(seq)), Head(seq))

\* mapping[pid] after the first loop of _computeSid: the nonce at the last
\* position of pid in members, undefined beyond the end of nonces
sidMapping(members, nonces, pid) ==
    LET last == CHOOSE i \in 1 .. Len(members) :
                    /\ members[i] = pid
                    /\ \A j \in 1 .. Len(members) : members[j] = pid => j <= i
    IN IF last <= Len(nonces) THEN nonces[last] ELSE UndefinedStr

\* mpenc.utils.sha256, taken as injective: the input under a mark that no
\* other string starts with
sha256(str) == <<99>> \o str

\* the second loop of _computeSid over the sorted members from index i on:
\* the pair (pidItems, nonceItems), empty pids skipped
RECURSIVE sidItems(_, _, _, _)
sidItems(sorted, i, members, nonces) ==
    IF i > Len(sorted) THEN [pidItems |-> <<>>, nonceItems |-> <<>>]
    ELSE LET rest == sidItems(sorted, i + 1, members, nonces)
             pid == sorted[i]
         IN IF pid # <<>>
              THEN [pidItems |-> pid \o rest.pidItems,
                    nonceItems |-> sidMapping(members, nonces, pid) \o rest.nonceItems]
              ELSE rest

\* _computeSid without sortedMembers.sort()
computeSidUnsorted(members, nonces) ==
    LET items == sidItems(members, 1, members, nonces)
    IN sha256(items.pidItems \o items.nonceItems)

\* mpenc.ske._computeSid(members, nonces)
computeSid(members, nonces) ==
    LET items == sidItems(sortStrings(members), 1, members, nonces)
    IN sha256(items.pidItems \o items.nonceItems)

(***************************************************************************)
(* _computeSid on its own: two calls on inputs drawn from small sets.      *)
(***************************************************************************)
\* the duplicate-free lists of at most n of the pids S
DupFreeSeqs(S, n) ==
    {q \in UNION {[1 .. k -> S] : k \in 0 .. n} :
        \A i, j \in 1 .. Len(q) : i < j => q[i] # q[j]}

\* the inputs of _computeSid: a duplicate-free member list with one nonce
\* per member
SidInputs ==
    UNION { {[members |-> ms, nonces |-> ns] : ns \in [1 .. Len(ms) -> SidNonces]} :
              ms \in DupFreeSeqs(SidPids, SidMaxMembers) }

NoSidCall == [members |-> <<>>, nonces |-> <<>>, sid |-> NullStr]

SidInit ==
    /\ sidCall1 \in {[members |-> in.members, nonces |-> in.nonces, sid |-> NullStr] :
                        in \in SidInputs}
    /\ sidCall2 = NoSidCall
    /\ sidPc = "in"

\* the first call, on the lists chosen
SidFirst ==
    /\ sidPc = "in"
    /\ sidCall1' = [sidCall1 EXCEPT !.sid = computeSid(sidCall1.members, sidCall1.nonces)]
    /\ sidPc' = "one"
    /\ UNCHANGED <<sidCall2, tvars, skevars, tlvvars, logvars>>

\* the second call, on any lists
SidSecond ==
    /\ sidPc = "one"
    /\ \E in \in SidInputs :
          sidCall2' = [members |-> in.members, nonces |-> in.nonces,
                       sid |-> computeSid(in.members, in.nonces)]
    /\ sidPc' = "two"
    /\ UNCHANGED <<sidCall1, tvars, skevars, tlvvars, logvars>>

SidNext == SidFirst \/ SidSecond

\* no call of _computeSid is under way
SidIdle ==
    /\ sidCall1 = NoSidCall
    /\ sidCall2 = NoSidCall
    /\ sidPc = "idle"

\* the set of (member, nonce) pairs of a call
SidPairs(call) == {<<call.members[i], call.nonces[i]>> : i \in 1 .. Len(call.members)}

(***************************************************************************)
(* BaseTranscript: state.                                                  *)
(***************************************************************************)

\* new BaseTranscript()
BaseTranscript ==
    [ uIds |-> {},                  \* _uIds: set of authors
      messages |-> EmptyMap,        \* _messages: mId -> message
      minMessages |-> {},           \* _minMessages
      maxMessages |-> {},           \* _maxMessages
      successors |-> EmptyMap,      \* _successors: mId -> set of mId
      length |-> 0,                 \* _length
      messageIndex |-> EmptyMap,    \* _messageIndex: mId -> index into log, from 0
      log |-> <<>>,                 \* _log: the accept order
      authorMessages |-> EmptyMap,  \* _authorMessages: uId -> sequence of mId
      authorIndex |-> EmptyMap,     \* _authorIndex: mId -> index in its author's sequence, from 0
      context |-> EmptyMap,         \* _context: mId -> (uId -> mId or null)
      unackby |-> EmptyMap,         \* _unackby: mId -> set of uId
      unacked |-> {},               \* _unacked: set of mId
      fubar |-> FALSE,              \* _fubar: the poisoned flag
      cacheBy |-> EmptyMap,         \* _cacheBy: uId -> frozen copy of its sequence
      cacheUnacked |-> NullMIds ]   \* _cacheUnacked: frozen sorted array, or null

TInit ==
    /\ transcript = BaseTranscript
    /\ result = [status |-> "none", acked |-> <<>>]

(***************************************************************************)
(* BaseTranscript: queries.                                                *)
(***************************************************************************)
\* Message.members(): the author and the readers
members(msg) == {msg.author} \cup msg.readers

size(self) == self.length

all(self) == self.log

has(self, mId) == mId \in DOMAIN self.messages

\* min that reads the maximal messages
minOfMax(self) == self.maxMessages

min(self) == self.minMessages

max(self) == self.maxMessages

pre(self, mId) == self.messages[mId].parents

suc(self, mId) == self.successors[mId]

author(self, mId) == self.messages[mId].author

\* the fast path of le without the comparison of the author indexes
leByContextAnyEntry(self, m0, m1) ==
    self.context[m1][author(self, m0)] # NullM

\* the fast path of le when the author of m0 is a reader of m1: decided by
\* the context entry of m1 for that author
leByContext(self, m0, m1) ==
    LET p0 == self.context[m1][author(self, m0)]
    IN p0 # NullM /\ self.authorIndex[m0] <= self.authorIndex[p0]

\* le with _le_expensive inlined (they are mutually recursive in the source)
RECURSIVE le(_, _, _)
le(self, m0, m1) ==
    IF m0 = m1 THEN TRUE
    ELSE LET u0 == author(self, m0)
             u1 == author(self, m1)
         IN IF u0 = u1
              THEN self.authorIndex[m0] <= self.authorIndex[m1]
            ELSE IF u0 \in self.messages[m1].readers
              THEN leByContext(self, m0, m1)
            ELSE IF self.messageIndex[m0] > self.messageIndex[m1]
              THEN FALSE
            ELSE \E p \in pre(self, m1) : le(self, m0, p)

ge(self, m0, m1) == le(self, m1, m0)

allAuthors(self) == self.uIds

\* by(uId): the value returned, the cached copy when there is one
by(self, uId) ==
    IF uId \in DOMAIN self.cacheBy THEN self.cacheBy[uId]
    ELSE self.authorMessages[uId]

\* by(uId): the transcript after the call; safeGet throws for a uId without
\* messages
byCall(self, uId) ==
    IF uId \in DOMAIN self.cacheBy \/ uId \notin DOMAIN self.authorMessages
      THEN self
      ELSE [self EXCEPT !.cacheBy = (uId :> self.authorMessages[uId]) @@ @]

unackby(self, mId) == self.unackby[mId]

\* Array.sort of mIds by the index idx
RECURSIVE sortByIndex(_, _)
sortByIndex(S, idx) ==
    IF S = {} THEN <<>>
    ELSE LET m == CHOOSE x \in S : \A y \in S : idx[x] <= idx[y]
         IN <<m>> \o sortByIndex(S \ {m}, idx)

\* _sortMIds: mIds sorted by accept index
sortMIds(self, mIds) == sortByIndex(mIds, self.messageIndex)

\* unacked(): the value returned, the cached array when there is one
unacked(self) ==
    IF self.cacheUnacked # NullMIds THEN self.cacheUnacked
    ELSE sortMIds(self, self.unacked)

\* unacked(): the transcript after the call
unackedCall(self) == [self EXCEPT !.cacheUnacked = unacked(self)]

\* _invalidateCaches that keeps the cached sequences of the authors
invalidateCachesUnackedOnly(self, uId) ==
    [self EXCEPT !.cacheUnacked = NullMIds]

\* _invalidateCaches(uId) for a uId given
invalidateCaches(self, uId) ==
    [self EXCEPT !.cacheUnacked = NullMIds,
                 !.cacheBy = [u \in DOMAIN @ \ {uId} |-> @[u]]]

\* pre_ruId(mId): the context stored for mId
pre_ruId(self, mId) == self.context[mId]

\* pre_uId(mId): the element of the author's sequence at the author index of
\* mId, or null when that index is 0
pre_uId(self, mId) ==
    LET i == self.authorIndex[mId]
    IN IF i # 0 THEN self.authorMessages[author(self, mId)][i + 1] ELSE NullM

\* whether a query throws.  None of them reads _fubar; safeGet throws for a
\* key the map does not hold.
sizeThrows(self) == FALSE

hasThrows(self, mId) == FALSE

leThrows(self, m0, m1) ==
    m0 # m1 /\ (m0 \notin DOMAIN self.messages \/ m1 \notin DOMAIN self.messages)

byThrows(self, uId) ==
    uId \notin DOMAIN self.cacheBy /\ uId \notin DOMAIN self.authorMessages

unackbyThrows(self, mId) == mId \notin DOMAIN self.unackby

unackedThrows(self) == FALSE

(***************************************************************************)
(* Helpers of add().                                                       *)
(***************************************************************************)
\* ImmutableSet.toArray() / forEach order of a set of mIds
RECURSIVE toArray(_)
toArray(S) ==
    IF S = {} THEN <<>>
    ELSE LET m == CHOOSE x \in S : \A y \in S : x <= y
         IN <<m>> \o toArray(S \ {m})

\* the test of _mergeContext's inner loop: whether um replaces the entry cur
ctxReplaces(self, cur, um) ==
    cur = Absent \/ cur = NullM \/ (um # NullM /\ ge(self, um, cur))

\* the entry of user u after the first loop of _mergeContext over parents ps
RECURSIVE ctxFold(_, _, _, _)
ctxFold(self, ps, u, cur) ==
    IF ps = <<>> THEN cur
    ELSE LET mc == self.context[Head(ps)]
             nxt == IF u \in DOMAIN mc /\ ctxReplaces(self, cur, mc[u])
                      THEN mc[u] ELSE cur
         IN ctxFold(self, Tail(ps), u, nxt)

\* _mergeContext(pmId, ruId): a Map with the keys ruId
mergeContext(self, pmId, ruId) ==
    [u \in ruId |->
        LET byParent == {m \in pmId : author(self, m) = u}
            merged == ctxFold(self, toArray(pmId), u, Absent)
        IN IF byParent # {}
             THEN CHOOSE m \in byParent : \A y \in byParent : y <= m
           ELSE IF merged = Absent THEN NullM
           ELSE merged]

\* iterAncestors(init, pred): the ancestors reached from init through nodes
\* that satisfy pred; S is the set of nodes satisfying pred
RECURSIVE ancestorsThrough(_, _, _, _)
ancestorsThrough(self, front, seen, S) ==
    LET new == (front \cap S) \ seen
    IN IF new = {} THEN seen
       ELSE ancestorsThrough(self, UNION {pre(self, m) : m \in new},
                             seen \cup new, S)

iterAncestors(self, init, S) == ancestorsThrough(self, init, {}, S)

\* the merger created by graph.createMerger, applied to a set of parents:
\* FALSE when the parents are not in different chains, or when two of them,
\* not causally ordered, each include a user the other does not
mergeOk(self, pmId) ==
    /\ \A p, q \in pmId : p # q => ~le(self, p, q)
    /\ \A p, q \in pmId :
          ~ ( /\ p # q
              /\ members(self.messages[p]) \ members(self.messages[q]) # {}
              /\ members(self.messages[q]) \ members(self.messages[p]) # {} )

\* last message by the same author
pumIdOf(self, uId) ==
    IF uId \in DOMAIN self.authorMessages
      THEN self.authorMessages[uId][Len(self.authorMessages[uId])]
      ELSE NullM

(***************************************************************************)
(* BaseTranscript.add(msg).                                                *)
(***************************************************************************)
\* the total-ordering check with every() in the place of some()
refsPrevSentEvery(self, pumId, pmId) ==
    pumId = NullM \/ \A m \in pmId : le(self, pumId, m)

\* invariant: total-ordering of one user's messages: the check passes
refsPrevSent(self, pumId, pmId) ==
    pumId = NullM \/ \E m \in pmId : le(self, pumId, m)

\* the test for a message sent to self that never finds one
sentToSelfNever(msg) == FALSE

\* ruId.has(uId): the author is among the readers
sentToSelf(msg) == msg.author \in msg.readers

\* the filter for secret parents that lets every parent pass
pmId403None(self, msg) == {}

\* pmId403: the parents the author is not allowed to read, neither as their
\* author nor as one of their readers
pmId403(self, msg) ==
    {pm \in msg.parents : msg.author \notin members(self.messages[pm])}

\* the sanity checks of add() in the order of the source: the error raised,
\* or "" when the message passes them all
addError(self, msg) ==
    LET mId == msg.mId
        uId == msg.author
        pmId == msg.parents
        ruId == msg.readers
        pumId == pumIdOf(self, uId)
    IN IF self.fubar THEN "refusing all operations"
       ELSE IF mId = NullM THEN "invalid mId"
       ELSE IF mId \in pmId THEN "message references itself"
       ELSE IF has(self, mId) THEN "message already added"
       ELSE IF uId = NullU THEN "invalid uId"
       ELSE IF sentToSelf(msg) THEN "message sent to self"
       ELSE IF pmId \ DOMAIN self.messages # {} THEN "parents not found"
       \* the throw statement calls toArray() on an Array: a TypeError
       ELSE IF pmId403(self, msg) # {} THEN "TypeError"
       ELSE IF Cardinality(pmId) > Cardinality({author(self, m) : m \in pmId})
            THEN "redundant parents"
       ELSE IF ~refsPrevSent(self, pumId, pmId)
            THEN "does not reference prev-sent"
       ELSE IF ~mergeOk(self, pmId) THEN "merge"
       ELSE ""

\* add() throws from inside its try block
addRejectInTry(self, err) ==
    [self |-> [self EXCEPT !.fubar = TRUE], status |-> "error", err |-> err,
     acked |-> <<>>]

\* add() throws before it updates anything
addReject(self, err) ==
    [self |-> self, status |-> "error", err |-> err, acked |-> <<>>]

\* _log.unshift(mId) in the place of push
newLogUnshift(self, mId) == <<mId>> \o self.log

\* update overall sequences: _log.push(mId)
newLog(self, mId) == Append(self.log, mId)

\* the author's sequence set to [] whether or not the author has messages
newAuthorSeqReset(self, uId, mId) == <<mId>>

\* update per-author sequences: the author's sequence with mId pushed
newAuthorSeq(self, uId, mId) ==
    LET pumId == pumIdOf(self, uId)
        oldSeq == IF pumId = NullM THEN <<>> ELSE self.authorMessages[uId]
    IN Append(oldSeq, mId)

\* update unacked: the ancestors of msg that its author had not acked yet
ackedAncestors(self, msg) ==
    iterAncestors(self, msg.parents,
        {m \in DOMAIN self.messages : msg.author \in self.unackby[m]})

\* update unacked: _unackby after msg was added
newUnackby(self, msg) ==
    LET anc == ackedAncestors(self, msg)
    IN [m \in DOMAIN self.unackby \cup {msg.mId} |->
          IF m = msg.mId THEN msg.readers
          ELSE IF m \in anc THEN self.unackby[m] \ {msg.author}
          ELSE self.unackby[m]]

\* the set acked without the message that has no readers
ackedSetAncestorsOnly(self, msg) ==
    {am \in ackedAncestors(self, msg) : newUnackby(self, msg)[am] = {}}

\* update unacked: the set acked, the messages fully acked by adding msg
ackedSet(self, msg) ==
    LET anc == ackedAncestors(self, msg)
        unackby1 == newUnackby(self, msg)
    IN (IF msg.readers = {} THEN {msg.mId} ELSE {})
          \cup {am \in anc : unackby1[am] = {}}

\* _unacked without the subtraction of acked
newUnackedKeepAcked(self, msg) == self.unacked \cup {msg.mId}

\* update unacked: _unacked after msg was added
newUnacked(self, msg) ==
    (self.unacked \cup {msg.mId}) \ ackedSet(self, msg)

\* the state update of add()
addAccept(self, msg) ==
    LET mId == msg.mId
        uId == msg.author
        pmId == msg.parents
        ruId == msg.readers
        ctx == mergeContext(self, pmId, ruId)
        newIndex == (mId :> self.length) @@ self.messageIndex
        authorSeq == newAuthorSeq(self, uId, mId)
    IN [self |-> invalidateCaches(
          [ uIds |-> self.uIds \cup {uId},
            messages |-> (mId :> msg) @@ self.messages,
            minMessages |-> IF pmId = {} THEN self.minMessages \cup {mId}
                            ELSE self.minMessages,
            maxMessages |-> (self.maxMessages \cup {mId}) \ pmId,
            successors |-> [m \in DOMAIN self.successors \cup {mId} |->
                              IF m = mId THEN {}
                              ELSE IF m \in pmId THEN self.successors[m] \cup {mId}
                              ELSE self.successors[m]],
            length |-> self.length + 1,
            messageIndex |-> newIndex,
            log |-> newLog(self, mId),
            authorMessages |-> (uId :> authorSeq) @@ self.authorMessages,
            authorIndex |-> (mId :> Len(authorSeq) - 1) @@ self.authorIndex,
            context |-> (mId :> ctx) @@ self.context,
            unackby |-> newUnackby(self, msg),
            unacked |-> newUnacked(self, msg),
            fubar |-> self.fubar,
            cacheBy |-> self.cacheBy,
            cacheUnacked |-> self.cacheUnacked ], uId),
        status |-> "ok", err |-> "",
        acked |-> sortByIndex(ackedSet(self, msg), newIndex)]

\* add(msg): the transcript after the call, and what the call gave back
add(self, msg) ==
    LET err == addError(self, msg)
    IN IF err # "" THEN addReject(self, err) ELSE addAccept(self, msg)

\* add(msg) when the ancestor traversal called inside the try block raises
\* an exception: a message that fails a sanity check is rejected as before;
\* for any other the updates made before the traversal stay (core,
\* successors, sequences, context, the new entries of _unackby and
\* _unacked), the caches are not invalidated, and the catch block sets _fubar
addThrows(self, msg) ==
    LET err == addError(self, msg)
        full == addAccept(self, msg).self
    IN IF err # "" THEN addReject(self, err)
       ELSE [self |-> [full EXCEPT
                         !.unackby = (msg.mId :> msg.readers) @@ self.unackby,
                         !.unacked = self.unacked \cup {msg.mId},
                         !.cacheBy = self.cacheBy,
                         !.cacheUnacked = self.cacheUnacked,
                         !.fubar = TRUE],
             status |-> "error", err |-> "exception in update", acked |-> <<>>]

\* the messages handed to add() on self: a null mId, the mId accepted last
\* (a duplicate) or a fresh one; an author or null; parents among the
\* accepted messages, the fresh mId and one mId never seen, at most one per
\* user (more are never from distinct authors); any set of readers
MsgInputs(self) ==
    LET fresh == self.length + 1
        ids == {NullM} \cup {i \in {self.length, fresh} : 1 <= i /\ i <= MaxMsgs}
    IN { [mId |-> i, author |-> a, parents |-> P, readers |-> R] :
           i \in ids, a \in Users \cup {NullU},
           P \in {Q \in SUBSET (1 .. fresh + 1) :
                    Cardinality(Q) <= Cardinality(Users)},
           R \in SUBSET Users }

\* a caller hands a message to add(), while the transcript holds fewer than
\* MaxMsgs messages
Add ==
    /\ size(transcript) < MaxMsgs
    /\ \E msg \in MsgInputs(transcript) :
          LET out == add(transcript, msg)
          IN /\ transcript' = out.self
             /\ result' = [status |-> out.status, acked |-> out.acked]
    /\ UNCHANGED <<sidvars, skevars, tlvvars, logvars>>

\* a caller asks for by(uId)
By ==
    /\ \E uId \in Users : transcript' = byCall(transcript, uId)
    /\ UNCHANGED <<result, sidvars, skevars, tlvvars, logvars>>

\* a caller asks for unacked()
Unacked ==
    /\ transcript' = unackedCall(transcript)
    /\ UNCHANGED <<result, sidvars, skevars, tlvvars, logvars>>

\* a caller hands a message to add(), and the update phase raises an
\* exception
AddThrows ==
    /\ size(transcript) < MaxMsgs
    /\ \E msg \in MsgInputs(transcript) :
          LET out == addThrows(transcript, msg)
          IN /\ transcript' = out.self
             /\ result' = [status |-> out.status, acked |-> out.acked]
    /\ UNCHANGED <<sidvars, skevars, tlvvars, logvars>>

\* add() calls only
TNext == Add

\* add() calls, some of which raise an exception in the update phase
TFNext == Add \/ AddThrows

\* add() calls and the cached queries
TQNext == Add \/ By \/ Unacked

(***************************************************************************)
(* mpenc.ske: values.                                                      *)
(***************************************************************************)
\* the participant ids of the key exchange: "1", "2", "3"
SkePids == {<<1>>, <<2>>, <<3>>}
\* the values _newKey08(256) gives as nonces
SkeNonces == {<<7>>, <<8>>}
\* the values _newKey08(512) gives as ephemeral private keys
SkePrivKeys == {<<21>>, <<22>>}

\* JavaScript null where an array of strings is expected
NullArr == <<<<0, 0, 0>>>>
\* JavaScript null where the array of authentication flags is expected; the
\* flags are "true" and "false", and "hole" where the array has no element
NullFlags == <<"null">>

\* whether a string converts to true: not null, not undefined, not ''
truthy(str) == str \notin {<<>>, NullStr, UndefinedStr}

\* Array.prototype.indexOf: the index from 0, or -1
indexOf(arr, x) ==
    IF \E i \in 1 .. Len(arr) : arr[i] = x
      THEN (CHOOSE i \in 1 .. Len(arr) :
                arr[i] = x /\ \A j \in 1 .. Len(arr) : arr[j] = x => i <= j) - 1
      ELSE -1

\* arr[i] that takes the index to count from 1
atFromOne(arr, i) == IF 1 <= i /\ i <= Len(arr) THEN arr[i] ELSE UndefinedStr

\* arr[i] for an index from 0, undefined outside the array
at(arr, i) == IF 0 <= i /\ i < Len(arr) THEN arr[i + 1] ELSE UndefinedStr

\* flags[i] = true that sets every other element to false
setTrueOnly(flags, i) ==
    [k \in 1 .. (IF i + 1 > Len(flags) THEN i + 1 ELSE Len(flags)) |->
        IF k = i + 1 THEN "true" ELSE "false"]

\* flags[i] = true for an index from 0: an index of -1 sets a property and
\* no element; an index beyond the end grows the array, leaving holes
setTrue(flags, i) ==
    IF i < 0 THEN flags
    ELSE [k \in 1 .. (IF i + 1 > Len(flags) THEN i + 1 ELSE Len(flags)) |->
            IF k = i + 1 THEN "true"
            ELSE IF k <= Len(flags) THEN flags[k]
            ELSE "hole"]

\* mpenc.utils._noDuplicatesInList
noDuplicatesInList(arr) ==
    \A i, j \in 1 .. Len(arr) : i # j => arr[i] # arr[j]

\* mpenc.utils._arrayMaker(size, template)
arrayMaker(n, template) == [k \in 1 .. n |-> template]

\* djbec.publickey: the public key of an ephemeral private key
publickey(privKey) == <<privKey[1] + 10>>

\* the static RSA key pair of participant pid
staticPrivKeyOf(pid) == <<50>> \o pid
staticPubKeyOf(pid) == <<60>> \o pid

\* the public key that belongs to a static private key
rsaPublic(privKey) == <<60>> \o Tail(privKey)

\* no signature: sessionSignature || null
NullSig == [hash |-> NullStr, key |-> NullStr]

\* _smallrsasign(cleartext, privkey): the cleartext under the private key
smallrsasign(cleartext, privKey) == [hash |-> cleartext, key |-> privKey]

\* _smallrsaverify that gives the signed cleartext under any public key
smallrsaverifyAnyKey(ciphertext, pubKey) == ciphertext.hash

\* _smallrsaverify(ciphertext, pubkey): the signed cleartext when the public
\* key belongs to the signing key, and another string when it does not
smallrsaverify(ciphertext, pubKey) ==
    IF pubKey = rsaPublic(ciphertext.key) THEN ciphertext.hash ELSE <<0, 0, 0>>

\* new SignatureKeyExchangeMessage(source, dest, flow)
SignatureKeyExchangeMessage(source, dest, flow) ==
    [ source |-> source, dest |-> dest, flow |-> flow,
      members |-> <<>>, nonces |-> <<>>, pubKeys |-> <<>>,
      sessionSignature |-> NullSig ]

\* the null a downflow() call returns
NullMessage == SignatureKeyExchangeMessage(NullStr, NullStr, "null")

\* new SignatureKeyExchangeMember(id)
SignatureKeyExchangeMember(id) ==
    [ id |-> id,
      members |-> <<>>,
      authenticatedMembers |-> NullFlags,
      ephemeralPrivKey |-> NullStr,
      ephemeralPubKey |-> NullStr,
      nonce |-> NullStr,
      nonces |-> NullArr,
      ephemeralPubKeys |-> NullArr,
      sessionId |-> NullStr,
      staticPrivKey |-> NullStr,
      staticPubKeyDir |-> EmptyMap,
      oldEphemeralKeys |-> EmptyMap ]

\* the directory of static public keys of all participants
staticPubKeyDir == [pid \in SkePids |-> staticPubKeyOf(pid)]

\* a member as the application sets it up: constructed, then given its static
\* private key and the directory of static public keys
newMember(id) ==
    [SignatureKeyExchangeMember(id) EXCEPT
        !.staticPrivKey = staticPrivKeyOf(id),
        !.staticPubKeyDir = staticPubKeyDir]

(***************************************************************************)
(* SignatureKeyExchangeMember: methods.  A method gives back the member    *)
(* after the call, "ok" or "error" (an assertion failed or a TypeError was *)
(* raised; what the call had assigned before stays assigned), and the      *)
(* message returned.                                                       *)
(***************************************************************************)
skeFail(self, err) ==
    [self |-> self, status |-> "error", err |-> err, msg |-> NullMessage]

\* the assertions of _computeSessionSig hold
sessionSigReady(self) == truthy(self.sessionId) /\ truthy(self.ephemeralPubKey)

\* _computeSessionSig()
computeSessionSig(self) ==
    LET sessionAck == self.id \o self.ephemeralPubKey \o self.nonce \o self.sessionId
    IN smallrsasign(sha256(sessionAck), self.staticPrivKey)

\* _verifySessionSig with the own nonce in the place of the sender's
verifySessionSigOwnNonce(self, memberId, signature) ==
    LET memberPos == indexOf(self.members, memberId)
    IN IF ~truthy(self.sessionId)
         THEN [status |-> "error", err |-> "Session ID not available.", valid |-> FALSE]
       ELSE IF memberPos < 0
         THEN [status |-> "error", err |-> "Member not in participants list.",
               valid |-> FALSE]
       \* null[memberPos]
       ELSE IF self.ephemeralPubKeys = NullArr
         THEN [status |-> "error", err |-> "TypeError", valid |-> FALSE]
       ELSE IF ~truthy(at(self.ephemeralPubKeys, memberPos))
         THEN [status |-> "error", err |-> "Member's ephemeral pub key missing.",
               valid |-> FALSE]
       ELSE IF memberId \notin DOMAIN self.staticPubKeyDir
         THEN [status |-> "error", err |-> "Member's static pub key missing.",
               valid |-> FALSE]
       \* _smallrsaverify(null, pubkey) reads null.length
       ELSE IF signature = NullSig
         THEN [status |-> "error", err |-> "TypeError", valid |-> FALSE]
       ELSE LET decrypted == smallrsaverify(signature, self.staticPubKeyDir[memberId])
                sessionAck == memberId \o at(self.ephemeralPubKeys, memberPos)
                                \o self.nonce \o self.sessionId
            IN [status |-> "ok", err |-> "", valid |-> decrypted = sha256(sessionAck)]

\* _verifySessionSig(memberId, signature)
verifySessionSig(self, memberId, signature) ==
    LET memberPos == indexOf(self.members, memberId)
    IN IF ~truthy(self.sessionId)
         THEN [status |-> "error", err |-> "Session ID not available.", valid |-> FALSE]
       ELSE IF memberPos < 0
         THEN [status |-> "error", err |-> "Member not in participants list.",
               valid |-> FALSE]
       \* null[memberPos]
       ELSE IF self.ephemeralPubKeys = NullArr
         THEN [status |-> "error", err |-> "TypeError", valid |-> FALSE]
       ELSE IF ~truthy(at(self.ephemeralPubKeys, memberPos))
         THEN [status |-> "error", err |-> "Member's ephemeral pub key missing.",
               valid |-> FALSE]
       ELSE IF memberId \notin DOMAIN self.staticPubKeyDir
         THEN [status |-> "error", err |-> "Member's static pub key missing.",
               valid |-> FALSE]
       \* _smallrsaverify(null, pubkey) reads null.length
       ELSE IF signature = NullSig
         THEN [status |-> "error", err |-> "TypeError", valid |-> FALSE]
       ELSE LET decrypted == smallrsaverify(signature, self.staticPubKeyDir[memberId])
                sessionAck == memberId \o at(self.ephemeralPubKeys, memberPos)
                                \o at(self.nonces, memberPos) \o self.sessionId
            IN [status |-> "ok", err |-> "", valid |-> decrypted = sha256(sessionAck)]

\* upflow(message), with the nonce and the ephemeral private key it draws
upflow(self, message, newNonce, newPrivKey) ==
    LET myPos == indexOf(message.members, self.id)
    IN IF ~noDuplicatesInList(message.members)
         THEN skeFail(self, "Duplicates in member list detected!")
       ELSE IF Len(message.nonces) > Len(message.members)
         THEN skeFail(self, "Too many nonces on ASKE upflow!")
       ELSE IF Len(message.pubKeys) > Len(message.members)
         THEN skeFail(self, "Too many pub keys on ASKE upflow!")
       ELSE IF myPos < 0
         THEN skeFail(self, "Not member of this key exchange!")
       ELSE
         LET pubKey == publickey(newPrivKey)
             s1 == [self EXCEPT
                      !.members = message.members,
                      !.nonces = Append(message.nonces, newNonce),
                      !.ephemeralPubKeys = Append(message.pubKeys, pubKey),
                      !.nonce = newNonce,
                      !.ephemeralPrivKey = newPrivKey,
                      !.ephemeralPubKey = pubKey]
         IN IF myPos = Len(s1.members) - 1
              THEN \* the last in the chain: broadcast own session authentication
                LET s2 == [s1 EXCEPT
                             !.sessionId = computeSid(s1.members, s1.nonces),
                             !.authenticatedMembers =
                                 setTrue(arrayMaker(Len(s1.members), "false"), myPos)]
                IN [self |-> s2, status |-> "ok", err |-> "",
                    msg |-> [message EXCEPT
                               !.source = self.id,
                               !.dest = <<>>,
                               !.flow = "downflow",
                               !.sessionSignature = computeSessionSig(s2),
                               !.nonces = s2.nonces,
                               !.pubKeys = s2.ephemeralPubKeys]]
              ELSE \* pass a message on to the next in line
                [self |-> s1, status |-> "ok", err |-> "",
                 msg |-> [message EXCEPT
                            !.source = self.id,
                            !.dest = at(s1.members, myPos + 1),
                            !.nonces = s1.nonces,
                            !.pubKeys = s1.ephemeralPubKeys]]

\* commit(otherMembers)
commit(self, otherMembers, newNonce, newPrivKey) ==
    IF otherMembers = <<>> THEN skeFail(self, "No members to add.")
    ELSE LET startMessage ==
                 [SignatureKeyExchangeMessage(self.id, <<>>, "upflow") EXCEPT
                     !.members = <<self.id>> \o otherMembers]
             s1 == [self EXCEPT !.nonce = NullStr, !.nonces = <<>>,
                                !.ephemeralPubKeys = <<>>]
         IN upflow(s1, startMessage, newNonce, newPrivKey)

\* downflow(message)
downflow(self, message) ==
    IF ~noDuplicatesInList(message.members)
      THEN skeFail(self, "Duplicates in member list detected!")
    ELSE
      LET myPos == indexOf(message.members, self.id)
          sid == computeSid(message.members, message.nonces)
          existingSession == self.sessionId = sid
          \* a broadcast for a new session: adopt it and authenticate myself
          s1 == IF existingSession THEN self
                ELSE [self EXCEPT
                        !.members = message.members,
                        !.nonces = message.nonces,
                        !.ephemeralPubKeys = message.pubKeys,
                        !.sessionId = sid,
                        !.authenticatedMembers =
                            setTrue(arrayMaker(Len(message.members), "false"), myPos)]
          isValid == verifySessionSig(s1, message.source, message.sessionSignature)
      IN IF isValid.status # "ok" THEN skeFail(s1, isValid.err)
         ELSE IF ~isValid.valid
           THEN skeFail(s1, "Authentication of member failed")
         ELSE IF s1.authenticatedMembers = NullFlags THEN skeFail(s1, "TypeError")
         ELSE
           LET senderPos == indexOf(message.members, message.source)
               s2 == [s1 EXCEPT !.authenticatedMembers = setTrue(@, senderPos)]
           IN IF existingSession
                THEN [self |-> s2, status |-> "ok", err |-> "", msg |-> NullMessage]
              ELSE IF ~sessionSigReady(s2)
                THEN skeFail(s2, "No ephemeral key pair available.")
              ELSE [self |-> s2, status |-> "ok", err |-> "",
                    msg |-> [message EXCEPT
                               !.source = self.id,
                               !.sessionSignature = computeSessionSig(s2)]]

\* join(newMembers) that assigns the member list before it checks it
joinAssignFirst(self, newMembers) ==
    LET allMembers == self.members \o newMembers
        s1 == [self EXCEPT !.members = allMembers]
    IN IF newMembers = <<>> THEN skeFail(s1, "No members to add.")
       ELSE IF ~noDuplicatesInList(allMembers)
         THEN skeFail(s1, "Duplicates in member list detected!")
       ELSE [self |-> s1, status |-> "ok", err |-> "",
             msg |-> [SignatureKeyExchangeMessage(self.id, newMembers[1], "upflow")
                        EXCEPT !.members = allMembers,
                               !.nonces = self.nonces,
                               !.pubKeys = self.ephemeralPubKeys]]

\* join(newMembers)
join(self, newMembers) ==
    LET allMembers == self.members \o newMembers
    IN IF newMembers = <<>> THEN skeFail(self, "No members to add.")
       ELSE IF ~noDuplicatesInList(allMembers)
         THEN skeFail(self, "Duplicates in member list detected!")
       ELSE [self |-> [self EXCEPT !.members = allMembers],
             status |-> "ok", err |-> "",
             msg |-> [SignatureKeyExchangeMessage(self.id, newMembers[1], "upflow")
                        EXCEPT !.members = allMembers,
                               !.nonces = self.nonces,
                               !.pubKeys = self.ephemeralPubKeys]]

\* mpenc.utils._arrayIsSubSet(subset, superset)
arrayIsSubSet(subset, superset) ==
    \A i \in 1 .. Len(subset) : \E j \in 1 .. Len(superset) : superset[j] = subset[i]

\* arr.splice(index, 1) for an index from 0: an index of -1 counts from the
\* end, an index beyond the end removes nothing
splice1(arr, index) ==
    LET pos == IF index < 0 THEN Len(arr) + index + 1 ELSE index + 1
    IN IF pos < 1 \/ pos > Len(arr) THEN arr
       ELSE [k \in 1 .. Len(arr) - 1 |-> IF k < pos THEN arr[k] ELSE arr[k + 1]]

\* the loop of exclude() over excludeMembers from position i on
RECURSIVE kick(_, _, _)
kick(self, excludeMembers, i) ==
    IF i > Len(excludeMembers) THEN self
    ELSE LET pid == excludeMembers[i]
             index == indexOf(self.members, pid)
             pub == at(self.ephemeralPubKeys, index)
             flag == IF 0 <= index /\ index < Len(self.authenticatedMembers)
                       THEN self.authenticatedMembers[index + 1] ELSE "false"
             old == [pub |-> IF truthy(pub) THEN pub ELSE NullStr,
                     authenticated |-> IF flag = "true" THEN "true" ELSE "false"]
         IN kick([self EXCEPT
                    !.oldEphemeralKeys =
                        [e \in DOMAIN @ \cup {pid} |-> IF e = pid THEN old ELSE @[e]],
                    !.members = splice1(@, index),
                    !.nonces = splice1(@, index),
                    !.ephemeralPubKeys = splice1(@, index)],
                 excludeMembers, i + 1)

\* exclude(excludeMembers)
exclude(self, excludeMembers) ==
    IF excludeMembers = <<>> THEN skeFail(self, "No members to exclude.")
    ELSE IF ~arrayIsSubSet(excludeMembers, self.members)
      THEN skeFail(self, "Members list to exclude is not a sub-set of previous members!")
    ELSE IF indexOf(excludeMembers, self.id) >= 0
      THEN skeFail(self, "Cannot exclude mysefl.")
    \* null[index]
    ELSE IF self.ephemeralPubKeys = NullArr \/ self.authenticatedMembers = NullFlags
      THEN skeFail(self, "TypeError")
    ELSE
      LET s1 == kick(self, excludeMembers, 1)
          myPos == indexOf(s1.members, self.id)
          s2 == [s1 EXCEPT
                   !.sessionId = computeSid(s1.members, s1.nonces),
                   !.authenticatedMembers =
                       setTrue(arrayMaker(Len(s1.members), "false"), myPos)]
      IN IF ~sessionSigReady(s2)
           THEN skeFail(s2, "No ephemeral key pair available.")
         ELSE [self |-> s2, status |-> "ok", err |-> "",
               msg |-> [SignatureKeyExchangeMessage(self.id, <<>>, "downflow")
                          EXCEPT !.members = s2.members,
                                 !.nonces = s2.nonces,
                                 !.pubKeys = s2.ephemeralPubKeys,
                                 !.sessionSignature = computeSessionSig(s2)]]

\* isSessionAcknowledged(): "true" or "false", or "TypeError" on the null
\* the constructor leaves; every() skips the holes of the array
isSessionAcknowledged(self) ==
    IF self.authenticatedMembers = NullFlags THEN "TypeError"
    ELSE IF \A k \in 1 .. Len(self.authenticatedMembers) :
                self.authenticatedMembers[k] \in {"true", "hole"}
      THEN "true"
    ELSE "false"

(***************************************************************************)
(* The key exchange among the members: each message a call returns is      *)
(* delivered, an upflow message to its destination and a downflow          *)
(* broadcast to every other member, in any order.                          *)
(***************************************************************************)
SkeStart ==
    /\ member = [pid \in SkePids |-> newMember(pid)]
    /\ net = {}
    /\ skeGroup = <<>>
    /\ skeStatus = "none"
    /\ skeAcks = [pid \in SkePids |-> <<>>]

SkeInit == SkeStart /\ skePhase = "new"

\* no key exchange is to run
SkeIdle == SkeStart /\ skePhase = "idle"

\* the session acks of a member after a call: the session id is added when
\* the call returned a signed downflow broadcast
acksAfter(acks, out) ==
    IF out.status = "ok" /\ out.msg.flow = "downflow"
      THEN Append(acks, out.self.sessionId)
    ELSE acks

\* where a returned message goes
deliveries(msg) ==
    IF msg = NullMessage THEN {}
    ELSE IF msg.flow = "upflow" THEN {[to |-> msg.dest, msg |-> msg]}
    ELSE {[to |-> pid, msg |-> msg] :
             pid \in {msg.members[k] : k \in 1 .. Len(msg.members)} \ {msg.source}}

\* the lists of other members the initiator may commit to
OtherMembers(initiator) ==
    DupFreeSeqs(SkePids \ {initiator}, Cardinality(SkePids) - 1) \ {<<>>}

\* the initiator calls commit(otherMembers) and sends the message returned
SkeCommit ==
    /\ skePhase = "new"
    /\ \E initiator \in SkePids, newNonce \in SkeNonces, newPrivKey \in SkePrivKeys :
         \E otherMembers \in OtherMembers(initiator) :
            LET out == commit(member[initiator], otherMembers, newNonce, newPrivKey)
            IN /\ member' = [member EXCEPT ![initiator] = out.self]
               /\ net' = deliveries(out.msg)
               /\ skeGroup' = <<initiator>> \o otherMembers
               /\ skeStatus' = out.status
               /\ skeAcks' = [skeAcks EXCEPT ![initiator] = acksAfter(@, out)]
    /\ skePhase' = "started"
    /\ UNCHANGED <<tvars, sidvars, tlvvars, logvars>>

\* the destination of an upflow message calls upflow(message) and sends on
\* the message returned
SkeUpflow ==
    /\ \E d \in net, newNonce \in SkeNonces, newPrivKey \in SkePrivKeys :
          /\ d.msg.flow = "upflow"
          /\ d.to \in SkePids
          /\ LET out == upflow(member[d.to], d.msg, newNonce, newPrivKey)
             IN /\ member' = [member EXCEPT ![d.to] = out.self]
                /\ net' = (net \ {d}) \cup deliveries(out.msg)
                /\ skeStatus' = out.status
                /\ skeAcks' = [skeAcks EXCEPT ![d.to] = acksAfter(@, out)]
    /\ UNCHANGED <<skeGroup, skePhase, tvars, sidvars, tlvvars, logvars>>

\* a receiver of a downflow broadcast calls downflow(message) and
\* broadcasts the message returned, if any
SkeDownflow ==
    /\ \E d \in net :
          /\ d.msg.flow = "downflow"
          /\ d.to \in SkePids
          /\ LET out == downflow(member[d.to], d.msg)
             IN /\ member' = [member EXCEPT ![d.to] = out.self]
                /\ net' = (net \ {d}) \cup deliveries(out.msg)
                /\ skeStatus' = out.status
                /\ skeAcks' = [skeAcks EXCEPT ![d.to] = acksAfter(@, out)]
    /\ UNCHANGED <<skeGroup, skePhase, tvars, sidvars, tlvvars, logvars>>

SkeNext == SkeCommit \/ SkeUpflow \/ SkeDownflow

\* the messages a member may be handed: those in flight and an empty one
SkeMessages ==
    {d.msg : d \in net} \cup {SignatureKeyExchangeMessage(NullStr, <<>>, "upflow")}

\* a list without the entries equal to x
without(arr, x) == SelectSeq(arr, LAMBDA y : y # x)

\* a message as it is, with a participant more or less in its member list,
\* and with more nonces or more public keys than members
MessageVariants(m) ==
    {m}
    \cup {[m EXCEPT !.members = Append(@, q)] : q \in SkePids}
    \cup {[m EXCEPT !.members = without(@, q)] : q \in SkePids}
    \cup {[m EXCEPT !.nonces = @ \o arrayMaker(Len(m.members) + 1 - Len(@), n)] :
             n \in {x \in SkeNonces : Len(m.nonces) <= Len(m.members)}}
    \cup {[m EXCEPT !.pubKeys = @ \o arrayMaker(Len(m.members) + 1 - Len(@), publickey(k))] :
             k \in {x \in SkePrivKeys : Len(m.pubKeys) <= Len(m.members)}}

SkeMsgInputs == UNION {MessageVariants(m) : m \in SkeMessages}

\* a downflow message whose signature will not verify: signed with the static
\* key of another participant, sent in the name of a participant that is no
\* member, or stripped of the ephemeral public keys
SkeTampered(m) ==
    {[m EXCEPT !.sessionSignature = smallrsasign(@.hash, staticPrivKeyOf(q))] :
        q \in SkePids \ {m.source}}
    \cup {[m EXCEPT !.source = q] : q \in {r \in SkePids : indexOf(m.members, r) < 0}}
    \cup {[m EXCEPT !.pubKeys = <<>>]}

\* once in a run, a member is handed a tampered copy of a downflow message
\* in flight and calls downflow(message) with it; the message itself stays in
\* flight
SkeForged ==
    /\ skePhase = "started"
    /\ \E d \in net :
          /\ d.msg.flow = "downflow"
          /\ d.to \in SkePids
          /\ \E m \in SkeTampered(d.msg) :
                LET out == downflow(member[d.to], m)
                IN /\ member' = [member EXCEPT ![d.to] = out.self]
                   /\ net' = net \cup deliveries(out.msg)
                   /\ skeStatus' = out.status
                   /\ skeAcks' = [skeAcks EXCEPT ![d.to] = acksAfter(@, out)]
    /\ skePhase' = "tampered"
    /\ UNCHANGED <<skeGroup, tvars, sidvars, tlvvars, logvars>>

SkeFNext == SkeCommit \/ SkeUpflow \/ SkeDownflow \/ SkeForged

\* the session signatures a participant may have computed for message m in
\* the name of its source: over any ephemeral key, any nonce, and the session
\* id of m, of m with other nonces, or of a session a member holds
SkeSignatures(m) ==
    LET sids == {computeSid(m.members, m.nonces)}
                \cup {computeSid(m.members, [i \in 1 .. Len(m.nonces) |-> x]) :
                         x \in SkeNonces}
                \cup {member[r].sessionId : r \in SkePids}
    IN {smallrsasign(sha256(m.source \o publickey(k) \o n \o sid), staticPrivKeyOf(q)) :
           q \in SkePids, k \in SkePrivKeys, n \in SkeNonces, sid \in sids}

\* the downflow broadcasts recorded from earlier sessions of two
\* participants: what the second sent after the first had called commit()
SkeRecorded ==
    {upflow(newMember(b),
            commit(newMember(a), <<b>>, n1, k1).msg, n2, k2).msg :
        a \in SkePids, b \in SkePids, n1 \in SkeNonces, n2 \in SkeNonces,
        k1 \in SkePrivKeys, k2 \in SkePrivKeys} \ {NullMessage}

\* the lists of participants handed to commit(), join() and exclude()
SkePidLists ==
    {<<>>} \cup {<<q>> : q \in SkePids} \cup {<<q, r>> : q, r \in SkePids}

(***************************************************************************)
(* The TLV codec (mpenc.codec): a unit is the type as 16 bits, big endian, *)
(* the length of the value as 16 bits, big endian, and the value.  A byte  *)
(* string is a sequence of numbers 0 .. 255.                               *)
(***************************************************************************)
\* the types, the byte values and the length of a long value of the runs
TlvTypes == {0, 42, 256, 21356, 65535}
TlvBytes == {0, 5, 255}
TlvLongLen == 300

\* no value: the null that decodeTLV gives for a unit of length 0
NullBytes == <<-1>>

\* the byte strings over bytes of a length up to n
RECURSIVE ByteStrings(_, _)
ByteStrings(bytes, n) ==
    IF n = 0 THEN {<<>>}
    ELSE ByteStrings(bytes, n - 1)
         \cup {Append(b, x) : b \in {c \in ByteStrings(bytes, n - 1) : Len(c) = n - 1},
                               x \in bytes}

\* the values of the runs: the short byte strings and one of TlvLongLen bytes
TlvValues == ByteStrings(TlvBytes, TlvMaxLen) \cup {[i \in 1 .. TlvLongLen |-> 5]}

\* _short2bin that leaves out the high byte
short2binLow(n) == <<0, n % 256>>

\* _short2bin(value): 16 bits, big endian
short2bin(n) == <<(n \div 256) % 256, n % 256>>

\* _bin2short(value)
bin2short(b) == b[1] * 256 + b[2]

\* encodeTLV(tlvType, value); a null value is a value of no bytes
encodeTLV(tlvType, value) ==
    LET v == IF value = NullBytes THEN <<>> ELSE value
    IN short2bin(tlvType) \o short2bin(Len(v)) \o v

\* decodeTLV(tlvContainer): the type, the value (null for length 0) and the
\* rest, or MalformedTLV when fewer bytes are left than the length says
decodeTLV(tlvContainer) ==
    IF Len(tlvContainer) < 4
      THEN [status |-> "MalformedTLV", type |-> 0, value |-> NullBytes, rest |-> <<>>]
    ELSE LET type == bin2short(SubSeq(tlvContainer, 1, 2))
             length == bin2short(SubSeq(tlvContainer, 3, 4))
         IN IF Len(tlvContainer) - 4 < length
              THEN [status |-> "MalformedTLV", type |-> type, value |-> NullBytes,
                    rest |-> <<>>]
            ELSE [status |-> "ok", type |-> type,
                  value |-> IF length = 0 THEN NullBytes
                            ELSE SubSeq(tlvContainer, 5, 4 + length),
                  rest |-> SubSeq(tlvContainer, 5 + length, Len(tlvContainer))]

\* no result yet
TlvNoResult == [status |-> "none", type |-> 0, value |-> NullBytes, rest |-> <<>>]

\* a caller has a type, a value and the bytes that are to follow the unit
TlvInit ==
    \E t \in TlvTypes, v \in TlvValues, r \in TlvValues :
        tlv = [pc |-> "new", type |-> t, value |-> v, rest |-> r, bytes |-> <<>>,
               cut |-> FALSE, out |-> TlvNoResult]

\* the codec is not used
TlvIdle ==
    tlv = [pc |-> "idle", type |-> 0, value |-> <<>>, rest |-> <<>>, bytes |-> <<>>,
           cut |-> FALSE, out |-> TlvNoResult]

\* the caller encodes the unit and appends the rest
TlvEncode ==
    /\ tlv.pc = "new"
    /\ tlv' = [tlv EXCEPT !.pc = "encoded",
                          !.bytes = encodeTLV(tlv.type, tlv.value) \o tlv.rest]
    /\ UNCHANGED <<tvars, sidvars, skevars, logvars>>

\* the bytes are cut off within the value of the unit
TlvTruncate ==
    /\ tlv.pc = "encoded"
    /\ ~tlv.cut
    /\ \E k \in 4 .. 3 + Len(tlv.value) :
          tlv' = [tlv EXCEPT !.bytes = SubSeq(tlv.bytes, 1, k), !.cut = TRUE]
    /\ UNCHANGED <<tvars, sidvars, skevars, logvars>>

\* the receiver decodes the bytes
TlvDecode ==
    /\ tlv.pc = "encoded"
    /\ tlv' = [tlv EXCEPT !.pc = "decoded", !.out = decodeTLV(tlv.bytes)]
    /\ UNCHANGED <<tvars, sidvars, skevars, logvars>>

TlvNext == TlvEncode \/ TlvTruncate \/ TlvDecode

(***************************************************************************)
(* DefaultMessageLog: the linear sequence of the payload messages of the   *)
(* transcripts it is subscribed to.  The transcripts are given: T1 holds   *)
(* the messages 1 and 2 and their child 3, T2 holds the message 4, T3 is   *)
(* empty; logIgnored says which of the messages are no payload.            *)
(***************************************************************************)
LogTs == {"T1", "T2", "T3"}
NullT == "null"
LogMsgs == 1 .. 4

\* transcript.has(mId): the messages of a transcript
tscrMsgs(tscr) ==
    CASE tscr = "T1" -> {1, 2, 3}
      [] tscr = "T2" -> {4}
      [] OTHER -> {}

\* transcript.pre(mId)
tscrPre(mId) ==
    IF mId = 3 THEN {1, 2} ELSE {}

\* the messages at or before mId
RECURSIVE tscrBelow(_)
tscrBelow(mId) == {mId} \cup UNION {tscrBelow(p) : p \in tscrPre(mId)}

\* MessageLog.shouldIgnore(transcript, mId)
shouldIgnore(tscr, mId) == mId \in logIgnored

\* MessageLog.resolveEarlier(transcript, mIds): the latest messages of the
\* transcript at or before mIds that are not ignored
resolveEarlier(tscr, mIds) ==
    LET cand == {x \in UNION {tscrBelow(m) : m \in mIds \cap tscrMsgs(tscr)} :
                    ~shouldIgnore(tscr, x)}
    IN {x \in cand : \A y \in cand : y = x \/ x \notin tscrBelow(y)}

\* new DefaultMessageLog(); updates is what the observers of the sequence
\* have been told
newMessageLog ==
    [messageIndex |-> EmptyMap, parents |-> <<>>, seq |-> <<>>, transcripts |-> {},
     transcriptParents |-> EmptyMap, lastTranscript |-> NullT, updates |-> <<>>]

\* Map.set(key, value)
mapSet(map, key, value) ==
    [k \in DOMAIN map \cup {key} |-> IF k = key THEN value ELSE map[k]]

\* DefaultMessageLog.prototype.has
logHas(self, mId) == mId \in DOMAIN self.messageIndex

\* DefaultMessageLog.prototype.indexOf
logIndexOf(self, mId) == IF logHas(self, mId) THEN self.messageIndex[mId] ELSE -1

\* at that counts a negative index from the first entry
logAtMirrored(self, index) ==
    LET k == IF index < 0 THEN 0 - index ELSE index
    IN IF 0 <= k /\ k < Len(self.seq) THEN self.seq[k + 1] ELSE -1

\* DefaultMessageLog.prototype.at; -1 stands for undefined
logAt(self, index) ==
    LET k == IF index < 0 THEN Len(self.seq) + index ELSE index
    IN IF 0 <= k /\ k < Len(self.seq) THEN self.seq[k + 1] ELSE -1

\* DefaultMessageLog.prototype.parents
logParents(self, mId) == self.parents[self.messageIndex[mId] + 1]

\* the parents that _add stores: the parents of the transcript for a
\* message without any
effectiveParents(self, tscr, parents) ==
    LET trParents == IF tscr \in DOMAIN self.transcriptParents
                       THEN self.transcriptParents[tscr] ELSE {}
    IN IF parents = {} /\ trParents # {} THEN trParents ELSE parents

\* _add that takes a message it already has
logAddAgain(self, tscr, mId, parents) ==
    IF shouldIgnore(tscr, mId) THEN [self |-> self, status |-> "ok"]
    ELSE [self |-> [self EXCEPT !.transcripts = @ \cup {tscr},
                                !.messageIndex = mapSet(@, mId, Len(self.seq)),
                                !.parents = Append(@, effectiveParents(self, tscr, parents)),
                                !.seq = Append(@, mId),
                                !.updates = Append(@, [rIdx |-> 0, elem |-> mId])],
          status |-> "ok"]

\* _add that stores the parents as they are given
logAddNoFallback(self, tscr, mId, parents) ==
    IF logHas(self, mId) THEN [self |-> self, status |-> "already added"]
    ELSE IF shouldIgnore(tscr, mId) THEN [self |-> self, status |-> "ok"]
    ELSE [self |-> [self EXCEPT !.transcripts = @ \cup {tscr},
                                !.messageIndex = mapSet(@, mId, Len(self.seq)),
                                !.parents = Append(@, parents),
                                !.seq = Append(@, mId),
                                !.updates = Append(@, [rIdx |-> 0, elem |-> mId])],
          status |-> "ok"]

\* DefaultMessageLog.prototype._add
logAdd(self, tscr, mId, parents) ==
    IF logHas(self, mId) THEN [self |-> self, status |-> "already added"]
    ELSE IF shouldIgnore(tscr, mId) THEN [self |-> self, status |-> "ok"]
    ELSE LET ps == effectiveParents(self, tscr, parents)
         IN IF ps # parents /\ \E p \in ps : ~logHas(self, p)
              THEN [self |-> self, status |-> "AssertionError"]
            ELSE [self |-> [self EXCEPT !.transcripts = @ \cup {tscr},
                                        !.messageIndex = mapSet(@, mId, Len(self.seq)),
                                        !.parents = Append(@, ps),
                                        !.seq = Append(@, mId),
                                        !.updates = Append(@, [rIdx |-> 0, elem |-> mId])],
                  status |-> "ok"]

\* DefaultMessageLog.prototype._resolveEarlier
logResolveEarlier(self, tscr, mIds) ==
    IF tscr \notin DOMAIN self.transcriptParents
      THEN [status |-> "AssertionError", resolved |-> {}]
    ELSE LET first == resolveEarlier(tscr, mIds)
             resolved == IF first = {} THEN self.transcriptParents[tscr] ELSE first
         IN IF \E m \in resolved : ~logHas(self, m)
              THEN [status |-> "AssertionError", resolved |-> {}]
            ELSE [status |-> "ok", resolved |-> resolved]

\* getSubscriberFor that notes the transcript before it looks at the parents
getSubscriberForEager(self, tscr, parents) ==
    IF Len(parents) > 1
      THEN [self |-> [self EXCEPT !.lastTranscript = tscr], status |-> "Error"]
    ELSE LET r == IF Len(parents) = 1
                    THEN logResolveEarlier(self, parents[1].tscr, parents[1].mIds)
                    ELSE [status |-> "ok", resolved |-> {}]
         IN IF r.status # "ok" THEN [self |-> self, status |-> r.status]
            ELSE [self |-> [self EXCEPT
                               !.transcriptParents = mapSet(@, tscr, r.resolved),
                               !.lastTranscript = tscr],
                  status |-> "ok"]

\* DefaultMessageLog.prototype.getSubscriberFor, up to the return of the
\* subscriber; parents is the Map as the sequence of its entries
getSubscriberFor(self, tscr, parents) ==
    IF Len(parents) > 1 THEN [self |-> self, status |-> "Error"]
    ELSE LET r == IF Len(parents) = 1
                    THEN logResolveEarlier(self, parents[1].tscr, parents[1].mIds)
                    ELSE [status |-> "ok", resolved |-> {}]
         IN IF r.status # "ok" THEN [self |-> self, status |-> r.status]
            ELSE [self |-> [self EXCEPT
                               !.transcriptParents = mapSet(@, tscr, r.resolved),
                               !.lastTranscript = tscr],
                  status |-> "ok"]

\* the subscriber that getSubscriberFor(transcript, ...) returns
subscriber(self, tscr, mId) ==
    IF mId \notin tscrMsgs(tscr) THEN [self |-> self, status |-> "AssertionError"]
    ELSE IF shouldIgnore(tscr, mId) THEN [self |-> self, status |-> "ok"]
    ELSE logAdd(self, tscr, mId, resolveEarlier(tscr, tscrPre(mId)))

\* the entries of a parents map: some messages of a transcript
LogParentEntries ==
    {[mIds |-> ms, tscr |-> t] : ms \in SUBSET LogMsgs, t \in LogTs}

\* the parents maps of no, one and two transcripts whose entries name
\* messages of their transcript
LogParentMaps ==
    LET entries == {e \in LogParentEntries : e.mIds \subseteq tscrMsgs(e.tscr)}
    IN {<<>>} \cup {<<e>> : e \in entries}
       \cup {<<e, f>> : e \in {x \in entries : x.mIds = tscrMsgs(x.tscr)},
                        f \in {x \in entries : x.mIds = tscrMsgs(x.tscr)}}

\* a new log, and transcripts with any of their messages no payload
LogInit ==
    /\ log = newMessageLog
    /\ logIgnored \in SUBSET LogMsgs
    /\ logDelivered = <<>>
    /\ logSubscribed = EmptyMap
    /\ logResult = [op |-> "new", status |-> "ok"]

\* no message log is used
LogIdle ==
    /\ log = newMessageLog
    /\ logIgnored = {}
    /\ logDelivered = <<>>
    /\ logSubscribed = EmptyMap
    /\ logResult = [op |-> "idle", status |-> "ok"]

\* a transcript is subscribed, once
LogSubscribe ==
    /\ \E tscr \in LogTs \ DOMAIN log.transcriptParents, parents \in LogParentMaps :
          LET out == getSubscriberFor(log, tscr, parents)
              given == IF Len(parents) = 1
                         THEN [parent |-> parents[1].tscr,
                               frontier |-> logResolveEarlier(log, parents[1].tscr,
                                                              parents[1].mIds).resolved]
                       ELSE [parent |-> NullT, frontier |-> {}]
          IN /\ log' = out.self
             /\ logSubscribed' = IF out.status = "ok"
                                   THEN mapSet(logSubscribed, tscr, given)
                                 ELSE logSubscribed
             /\ logResult' = [op |-> "getSubscriberFor", status |-> out.status]
    /\ UNCHANGED <<logIgnored, logDelivered, tvars, sidvars, skevars, tlvvars>>

\* the subscriber of a subscribed transcript is invoked with an mId
LogDeliver ==
    /\ Len(logDelivered) < LogMaxDeliveries
    /\ \E tscr \in DOMAIN log.transcriptParents, mId \in LogMsgs :
          LET out == subscriber(log, tscr, mId)
          IN /\ log' = out.self
             /\ logDelivered' = IF out.status = "ok" THEN Append(logDelivered, mId)
                                 ELSE logDelivered
             /\ logResult' = [op |-> "subscriber", status |-> out.status]
    /\ UNCHANGED <<logIgnored, logSubscribed, tvars, sidvars, skevars, tlvvars>>

LogNext == LogSubscribe \/ LogDeliver

(***************************************************************************)
(* The specifications.                                                     *)
(***************************************************************************)
vars == <<tvars, sidvars, skevars, tlvvars, logvars>>

InitT == TInit /\ SidIdle /\ SkeIdle /\ TlvIdle /\ LogIdle

\* the transcript under any sequence of add() calls
SpecT == InitT /\ [][TNext]_vars

InitTF == TInit /\ SidIdle /\ SkeIdle /\ TlvIdle /\ LogIdle

\* the transcript under add() calls whose update phase may raise an exception
SpecTF == InitTF /\ [][TFNext]_vars

InitTQ == TInit /\ SidIdle /\ SkeIdle /\ TlvIdle /\ LogIdle

\* the transcript under any sequence of add(), by() and unacked() calls
SpecTQ == InitTQ /\ [][TQNext]_vars

InitSid == SidInit /\ TInit /\ SkeIdle /\ TlvIdle /\ LogIdle

\* _computeSid called on two pairs of lists
SpecSid == InitSid /\ [][SidNext]_vars

InitSke == SkeInit /\ TInit /\ SidIdle /\ TlvIdle /\ LogIdle

\* one key exchange among two or three members with honest keys
SpecSke == InitSke /\ [][SkeNext]_vars

InitSkeF == TInit /\ SidIdle /\ SkeInit /\ TlvIdle /\ LogIdle

\* the key exchange with one tampered downflow message handed to a member
SpecSkeF == InitSkeF /\ [][SkeFNext]_vars

InitTlv == TlvInit /\ TInit /\ SidIdle /\ SkeIdle /\ LogIdle

\* a unit encoded, followed by more bytes or cut off, and decoded
SpecTlv == InitTlv /\ [][TlvNext]_vars

InitLog == LogInit /\ TInit /\ SidIdle /\ SkeIdle /\ TlvIdle

\* a message log, the transcripts subscribed to it and their deliveries
SpecLog == InitLog /\ [][LogNext]_vars

(***************************************************************************)
(* Reference notions the properties are stated with: causal order as the   *)
(* closure of the parent links, independent of le() and of the contexts.   *)
(***************************************************************************)
\* the strict causal ancestors of m: everything reached over parent links
RECURSIVE Ancestors(_, _)
Ancestors(self, m) ==
    LET ps == pre(self, m) \cap DOMAIN self.messages
    IN ps \cup UNION {Ancestors(self, p) : p \in ps}

\* a is b or a strict causal ancestor of b
CausallyLe(self, a, b) == a = b \/ a \in Ancestors(self, b)

\* the strict causal descendants of m
Descendants(self, m) == {d \in DOMAIN self.messages : m \in Ancestors(self, d)}

\* the accepted messages
Accepted(self) == DOMAIN self.messages

\* the index of m in all()
IndexInAll(self, m) == CHOOSE i \in 1 .. Len(all(self)) : all(self)[i] = m

\* the elements of a sequence
Range(seq) == {seq[i] : i \in 1 .. Len(seq)}

\* msg breaks a rule that add() on self is to enforce
Invalid(self, msg) ==
    LET ps == msg.parents \cap Accepted(self)
        u == msg.author
    IN \/ msg.mId = NullM
       \/ u = NullU
       \/ msg.mId \in msg.parents
       \/ has(self, msg.mId)
       \/ u \in msg.readers
       \/ msg.parents \ Accepted(self) # {}
       \/ \E p \in ps : u \notin members(self.messages[p])
       \/ \E p, q \in ps : p # q /\ author(self, p) = author(self, q)
       \/ /\ u \in allAuthors(self)
          /\ ~ \E p \in ps : CausallyLe(self, pumIdOf(self, u), p)
       \/ /\ msg.parents \subseteq Accepted(self)
          /\ ~mergeOk(self, msg.parents)

(***************************************************************************)
(* Properties of the transcript.                                           *)
(***************************************************************************)
\* C3: in every reachable transcript state, add(msg) of any message that
\* breaks a validation rule raises an error and leaves the transcript object
\* as it was, field by field, so that every query (size, all, has, min, max,
\* pre, suc, le, allAuthors, by, unackby, unacked, pre_ruId) answers after
\* the call as before it; and the transcript is not poisoned.
C3_InvalidAddChangesNothing ==
    \A msg \in MsgInputs(transcript) :
        Invalid(transcript, msg) =>
            LET out == add(transcript, msg)
            IN /\ out.status = "error"
               /\ out.self = transcript
               /\ ~out.self.fubar

\* a rejected add() has happened on a transcript that holds messages and
\* where a message can fail the last of the checks, the membership merge
C3_Witness ==
    /\ result.status = "error"
    /\ size(transcript) >= 2
    /\ \E msg \in MsgInputs(transcript) : add(transcript, msg).err = "merge"

\* C4: a message of an author u who already has an accepted message is
\* rejected when none of its parents p has le(last message of u, p), with
\* the total-order error once it passes the checks made before that one; it
\* is not refused by this check when some parent has it. And every accepted
\* message of u is a causal descendant of all earlier accepted ones of u.
C4_AuthorTotalOrder ==
    /\ \A msg \in MsgInputs(transcript) :
          (msg.author \in allAuthors(transcript)
              /\ msg.parents \subseteq Accepted(transcript)) =>
            LET out == add(transcript, msg)
                pumId == pumIdOf(transcript, msg.author)
                succeeds == \E p \in msg.parents : le(transcript, pumId, p)
            IN /\ ~succeeds => out.status = "error"
               /\ ~succeeds =>
                     out.err \in {"invalid mId", "message references itself",
                                  "message already added", "message sent to self",
                                  "TypeError", "redundant parents",
                                  "does not reference prev-sent"}
               /\ succeeds => out.err # "does not reference prev-sent"
    /\ \A u \in allAuthors(transcript) :
          \A i, j \in 1 .. Len(by(transcript, u)) :
              i < j => by(transcript, u)[i] \in Ancestors(transcript, by(transcript, u)[j])

\* an add() was rejected on a transcript in which an author has two messages
\* and a message of that author without parents fails the total-order check
C4_Witness ==
    /\ result.status = "error"
    /\ \E u \in allAuthors(transcript) :
          /\ Len(by(transcript, u)) >= 2
          /\ \E msg \in MsgInputs(transcript) :
                /\ msg.author = u
                /\ msg.parents = {}
                /\ add(transcript, msg).err = "does not reference prev-sent"

\* C5: for all accepted a, b: le(a, b) is true exactly when a = b or a is
\* reached from b over parent links; also when reader sets differ.
C5_LeIsCausalOrder ==
    \A a, b \in Accepted(transcript) :
        le(transcript, a, b) <=> CausallyLe(transcript, a, b)

\* C6: for all accepted a, b: le(a, b) and le(b, a) together imply a = b.
C6_LeAntisymmetric ==
    \A a, b \in Accepted(transcript) :
        (le(transcript, a, b) /\ le(transcript, b, a)) => a = b

\* two different accepted messages by different authors, one le the other
C6_Witness ==
    \E a, b \in Accepted(transcript) :
        /\ a # b
        /\ author(transcript, a) # author(transcript, b)
        /\ le(transcript, a, b)
        /\ ~le(transcript, b, a)

\* C7: for every author u, by(u) lists exactly the accepted messages of u,
\* each once, in the order they have in all(), and le(m0, m1) holds for any
\* m0 before m1 in by(u).
C7_ByIsAuthorOrder ==
    \A u \in Users :
        LET mine == {m \in Accepted(transcript) : author(transcript, m) = u}
        IN IF u \notin allAuthors(transcript) THEN mine = {}
           ELSE LET seq == by(transcript, u)
                IN /\ Range(seq) = mine
                   /\ Len(seq) = Cardinality(mine)
                   /\ \A i, j \in 1 .. Len(seq) :
                         i < j =>
                           /\ IndexInAll(transcript, seq[i]) < IndexInAll(transcript, seq[j])
                           /\ le(transcript, seq[i], seq[j])

\* an author has two messages with a message of the other author accepted
\* between them, and by() has answered for that author since
C7_Witness ==
    \E u \in allAuthors(transcript) :
        /\ u \in DOMAIN transcript.cacheBy
        /\ Len(by(transcript, u)) >= 2
        /\ \E m \in Accepted(transcript) :
              /\ author(transcript, m) # u
              /\ IndexInAll(transcript, by(transcript, u)[1]) < IndexInAll(transcript, m)
              /\ IndexInAll(transcript, m) < IndexInAll(transcript, by(transcript, u)[2])

\* C8: every parent of an accepted message is accepted and stands before it
\* in all(); and for accepted a # b, le(a, b) implies that a stands before b
\* in all().
C8_AcceptOrderExtendsCausalOrder ==
    /\ Range(all(transcript)) = Accepted(transcript)
    /\ Len(all(transcript)) = Cardinality(Accepted(transcript))
    /\ \A m \in Accepted(transcript) :
          \A p \in pre(transcript, m) :
              /\ p \in Accepted(transcript)
              /\ IndexInAll(transcript, p) < IndexInAll(transcript, m)
    /\ \A a, b \in Accepted(transcript) :
          (a # b /\ le(transcript, a, b)) =>
              IndexInAll(transcript, a) < IndexInAll(transcript, b)

\* a message with two parents, and a message accepted later that is not
\* causally after it
C8_Witness ==
    \E m, n \in Accepted(transcript) :
        /\ Cardinality(pre(transcript, m)) = 2
        /\ IndexInAll(transcript, m) < IndexInAll(transcript, n)
        /\ ~le(transcript, m, n)

\* C9: no call, an accepted or a rejected add() or a query, makes
\* unackby(m) of an accepted message m gain a member: its value after the
\* call is a subset of its value before; and after every call a message
\* whose unackby is empty is not in unacked(), so that, unackby never
\* growing, it never appears there again.
C9_UnackbyShrinks ==
    [][ \A m \in Accepted(transcript') :
          /\ m \in Accepted(transcript) =>
                unackby(transcript', m) \subseteq unackby(transcript, m)
          /\ unackby(transcript', m) = {} =>
                m \notin Range(unacked(transcript')) ]_vars

\* an accepted add() has fully acked an older message, while another
\* message is still unacked, and unacked() has answered since, so that its
\* answer is cached
C9_Witness ==
    /\ result.status = "ok"
    /\ transcript.cacheUnacked # NullMIds
    /\ \E m \in Range(result.acked) :
          /\ transcript.messages[m].readers # {}
          /\ unackby(transcript, m) = {}
    /\ unacked(transcript) # <<>>

\* C10: for every accepted message m, unackby(m) is readers(m) without the
\* authors of the accepted strict causal descendants of m, also when the
\* reader sets differ along the path.
C10_UnackbyIsReadersWithoutDescendantAuthors ==
    \A m \in Accepted(transcript) :
        unackby(transcript, m) =
            transcript.messages[m].readers
                \ {author(transcript, d) : d \in Descendants(transcript, m)}

\* C11: for every message that add() accepts, the list returned holds
\* exactly the messages that were in the transcript with a non-empty unackby
\* before the call and have an empty unackby after it, by increasing accept
\* index; the message added is not in it.
C11_AckedResult ==
    \A msg \in MsgInputs(transcript) :
        LET out == add(transcript, msg)
            newlyAcked == {m \in Accepted(transcript) :
                             /\ unackby(transcript, m) # {}
                             /\ unackby(out.self, m) = {}}
        IN out.status = "ok" =>
              /\ out.acked = sortByIndex(newlyAcked, out.self.messageIndex)
              /\ msg.mId \notin Range(out.acked)

\* C12: once the transcript is poisoned, the flag stays set over every
\* later add() call, every later add() call fails, and every query (size,
\* has, le, by, unackby, unacked) fails as well.
C12_PoisonedRefusesAll ==
    transcript.fubar =>
        /\ \A msg \in MsgInputs(transcript) :
              /\ add(transcript, msg).status = "error"
              /\ add(transcript, msg).self.fubar
        /\ sizeThrows(transcript)
        /\ unackedThrows(transcript)
        /\ \A m \in Accepted(transcript) :
              /\ hasThrows(transcript, m)
              /\ unackbyThrows(transcript, m)
              /\ byThrows(transcript, author(transcript, m))
              /\ \A n \in Accepted(transcript) : leThrows(transcript, m, n)

\* C13: for every accepted message m of author u, pre_uId(m) is the message
\* just before m in by(u), null when m is the first message of u, and never
\* m itself.
C13_PreUIdIsPrevious ==
    \A m \in Accepted(transcript) :
        LET seq == by(transcript, author(transcript, m))
            i == CHOOSE k \in 1 .. Len(seq) : seq[k] = m
        IN /\ pre_uId(transcript, m) = (IF i = 1 THEN NullM ELSE seq[i - 1])
           /\ pre_uId(transcript, m) # m

(***************************************************************************)
(* Properties of _computeSid.                                              *)
(***************************************************************************)
\* all pids and all nonces of the two calls have one length each, and no pid
\* is empty
SidFixedWidth ==
    LET pids == Range(sidCall1.members) \cup Range(sidCall2.members)
        nons == Range(sidCall1.nonces) \cup Range(sidCall2.nonces)
    IN /\ \A p, q \in pids : Len(p) = Len(q) /\ Len(p) > 0
       /\ \A x, y \in nons : Len(x) = Len(y)

\* C2 (amended): for duplicate-free member lists with one nonce per member,
\* two calls whose (member, nonce) pairs are the same set, in any order,
\* return the same session ID; and two calls on non-empty pids of one length
\* and nonces of one length that differ in the set of pairs return different
\* IDs.
C2_SidOfPairs ==
    sidPc = "two" =>
        /\ SidPairs(sidCall1) = SidPairs(sidCall2) => sidCall1.sid = sidCall2.sid
        /\ (SidFixedWidth /\ SidPairs(sidCall1) # SidPairs(sidCall2))
              => sidCall1.sid # sidCall2.sid

\* both calls made, the second on the lists of the first in reverse order,
\* two members with different nonces
C2_Witness ==
    /\ sidPc = "two"
    /\ Len(sidCall1.members) = 2
    /\ <<>> \notin Range(sidCall1.members)
    /\ sidCall1.nonces[1] # sidCall1.nonces[2]
    /\ sidCall2.members = <<sidCall1.members[2], sidCall1.members[1]>>
    /\ sidCall2.nonces = <<sidCall1.nonces[2], sidCall1.nonces[1]>>
    /\ sidCall1.sid = sidCall2.sid

\* C2 as stated: the same ID for every permutation of the pairs, and
\* different IDs for any two inputs that differ in the set of pairs.
C2_SidInjectiveOnPairs ==
    sidPc = "two" =>
        /\ SidPairs(sidCall1) = SidPairs(sidCall2) => sidCall1.sid = sidCall2.sid
        /\ SidPairs(sidCall1) # SidPairs(sidCall2) => sidCall1.sid # sidCall2.sid

(***************************************************************************)
(* Properties of the key exchange.                                         *)
(***************************************************************************)
\* the members of the key exchange
SkeGroupSet == Range(skeGroup)

\* C1: once the initiator has called commit(otherMembers) for two or more
\* members with honest keys and every message returned by a call has been
\* delivered (each upflow message to its destination, the last member's
\* broadcast and every ack returned by a downflow call to every other
\* member), no call having failed, isSessionAcknowledged() is true for every
\* member and all members hold the same session id.
C1_FullRunAcknowledged ==
    (skePhase = "started" /\ net = {}) =>
        /\ skeStatus = "ok"
        /\ \A p \in SkeGroupSet :
              /\ isSessionAcknowledged(member[p]) = "true"
              /\ truthy(member[p].sessionId)
              /\ member[p].sessionId = member[skeGroup[1]].sessionId
              /\ member[p].members = skeGroup

\* a run of three members, not in sorted order, has delivered all its
\* messages, and every member has authenticated the two others
C1_Witness ==
    /\ skePhase = "started"
    /\ net = {}
    /\ Len(skeGroup) = 3
    /\ StrLess(skeGroup[2], skeGroup[1])
    /\ \A p \in SkeGroupSet :
          member[p].authenticatedMembers = <<"true", "true", "true">>

\* C14: in every reachable state of a member, upflow(msg) with duplicate
\* members, with more nonces or public keys than members or without the
\* member itself, downflow(msg) with duplicate members, join(newMembers)
\* with no members or with one that makes a duplicate, and
\* exclude(excludeMembers) with no members, with a participant that is no
\* member or with the member itself all raise an error and leave every
\* field of the member as it was.
C14_RejectedCallsChangeNothing ==
    \A p \in SkePids :
      /\ \A m \in SkeMsgInputs, n \in SkeNonces, k \in SkePrivKeys :
            (\/ ~noDuplicatesInList(m.members)
             \/ Len(m.nonces) > Len(m.members)
             \/ Len(m.pubKeys) > Len(m.members)
             \/ indexOf(m.members, p) < 0)
            => /\ upflow(member[p], m, n, k).status = "error"
               /\ upflow(member[p], m, n, k).self = member[p]
      /\ \A m \in SkeMsgInputs :
            ~noDuplicatesInList(m.members)
            => /\ downflow(member[p], m).status = "error"
               /\ downflow(member[p], m).self = member[p]
      /\ \A L \in SkePidLists :
            (L = <<>> \/ ~noDuplicatesInList(member[p].members \o L))
            => /\ join(member[p], L).status = "error"
               /\ join(member[p], L).self = member[p]
      /\ \A L \in SkePidLists :
            (L = <<>> \/ ~arrayIsSubSet(L, member[p].members) \/ indexOf(L, p) >= 0)
            => /\ exclude(member[p], L).status = "error"
               /\ exclude(member[p], L).self = member[p]

\* a member that holds a session is handed a message with a repeated member,
\* is asked to join a participant that is a member already, and to exclude
\* itself
C14_Witness ==
    \E p \in SkePids :
      /\ truthy(member[p].sessionId)
      /\ Len(member[p].members) >= 2
      /\ \E m \in SkeMsgInputs :
            /\ m.members # <<>>
            /\ ~noDuplicatesInList(m.members)
            /\ downflow(member[p], m).status = "error"
            /\ \E n \in SkeNonces, k \in SkePrivKeys :
                  upflow(member[p], m, n, k).status = "error"
      /\ \E q \in SkePids \ {p} : join(member[p], <<q>>).status = "error"
      /\ exclude(member[p], <<p>>).status = "error"

\* C15: a commit(otherMembers) call that fails, otherMembers being empty or
\* holding the member itself or a participant twice, leaves nonce, nonces,
\* ephemeralPubKeys, members, sessionId and authenticatedMembers of the
\* member as they were before the call.
C15_FailedCommitChangesNothing ==
    \A p \in SkePids, L \in SkePidLists, n \in SkeNonces, k \in SkePrivKeys :
        (L = <<>> \/ ~noDuplicatesInList(<<p>> \o L))
        => /\ commit(member[p], L, n, k).status = "error"
           /\ commit(member[p], L, n, k).self.nonce = member[p].nonce
           /\ commit(member[p], L, n, k).self.nonces = member[p].nonces
           /\ commit(member[p], L, n, k).self.ephemeralPubKeys = member[p].ephemeralPubKeys
           /\ commit(member[p], L, n, k).self.members = member[p].members
           /\ commit(member[p], L, n, k).self.sessionId = member[p].sessionId
           /\ commit(member[p], L, n, k).self.authenticatedMembers
                = member[p].authenticatedMembers

\* the errors _verifySessionSig and the assertion on its result raise
VerificationErrors ==
    {"Member not in participants list.", "Member's ephemeral pub key missing.",
     "Member's static pub key missing.", "Authentication of member failed"}

\* C16: a downflow(msg) call that fails in the verification of the signature
\* (the sender is no member, the sender's ephemeral or static public key is
\* missing, or the signature does not verify) leaves members, nonces,
\* ephemeralPubKeys, sessionId and authenticatedMembers of the member as they
\* were, also when msg is about another session than the member's.
C16_FailedVerificationChangesNothing ==
    \A p \in SkePids, d \in net :
        d.msg.flow = "downflow" =>
            \A m \in SkeTampered(d.msg) :
                (/\ downflow(member[p], m).status = "error"
                 /\ downflow(member[p], m).err \in VerificationErrors)
                => /\ downflow(member[p], m).self.members = member[p].members
                   /\ downflow(member[p], m).self.nonces = member[p].nonces
                   /\ downflow(member[p], m).self.ephemeralPubKeys
                        = member[p].ephemeralPubKeys
                   /\ downflow(member[p], m).self.sessionId = member[p].sessionId
                   /\ downflow(member[p], m).self.authenticatedMembers
                        = member[p].authenticatedMembers

\* C17: a member that has not yet acknowledged the session is handed a
\* downflow message for it whose signature does not verify; the valid
\* downflow messages delivered afterwards are processed as if that message
\* had never arrived: the member returns its own ack on the first of them,
\* and once every message is delivered every member of the session has
\* authenticated all members.
C17_FailedDownflowForgotten ==
    (skePhase = "tampered" /\ net = {}) =>
        \A p \in SkeGroupSet :
            /\ isSessionAcknowledged(member[p]) = "true"
            /\ member[p].members = skeGroup

\* C18: a downflow(msg) call that succeeds returns null exactly when the
\* session id of msg.members and msg.nonces is the sessionId the member had
\* before the call; otherwise it returns msg with the member as source and
\* with the member's signature over its id, ephemeral public key, nonce and
\* the new session id, and the member holds the members, nonces, public keys
\* and session id of msg with authenticatedMembers true for itself and the
\* sender and false for all others.
C18_DownflowResult ==
    \A p \in SkePids, m \in SkeMsgInputs :
        downflow(member[p], m).status = "ok" =>
            /\ downflow(member[p], m).msg = NullMessage
                 <=> computeSid(m.members, m.nonces) = member[p].sessionId
            /\ computeSid(m.members, m.nonces) # member[p].sessionId =>
                 /\ downflow(member[p], m).msg =
                      [m EXCEPT
                         !.source = p,
                         !.sessionSignature =
                             smallrsasign(
                                 sha256(p \o member[p].ephemeralPubKey \o member[p].nonce
                                          \o computeSid(m.members, m.nonces)),
                                 member[p].staticPrivKey)]
                 /\ downflow(member[p], m).self.members = m.members
                 /\ downflow(member[p], m).self.nonces = m.nonces
                 /\ downflow(member[p], m).self.ephemeralPubKeys = m.pubKeys
                 /\ downflow(member[p], m).self.sessionId
                      = computeSid(m.members, m.nonces)
                 /\ downflow(member[p], m).self.authenticatedMembers =
                      [i \in 1 .. Len(m.members) |->
                          IF m.members[i] \in {p, m.source} THEN "true" ELSE "false"]

\* one member is handed the broadcast of a session new to it and returns its
\* ack, and a member that holds the session already is handed an ack and
\* returns null
C18_Witness ==
    /\ \E d \in net :
          /\ d.to \in SkePids
          /\ Len(d.msg.members) = 3
          /\ ~truthy(member[d.to].sessionId)
          /\ downflow(member[d.to], d.msg).status = "ok"
          /\ downflow(member[d.to], d.msg).msg # NullMessage
    /\ \E d \in net :
          /\ d.to \in SkePids
          /\ truthy(member[d.to].sessionId)
          /\ downflow(member[d.to], d.msg).status = "ok"
          /\ downflow(member[d.to], d.msg).msg = NullMessage

\* C19: an upflow(msg) call that succeeds for the member at position myPos of
\* msg.members returns msg with the member as source and with exactly the
\* new nonce and the new ephemeral public key appended to its lists.  When
\* the member is not the last of msg.members the message is an upflow
\* message for the next member, and no signature and no session id are
\* computed; when it is the last, the message is a downflow broadcast with
\* no destination that carries the member's signature over the session,
\* sessionId is the session id of the members and the nonces, and
\* authenticatedMembers is true for the member and false for all others.
C19_UpflowResult ==
    \A p \in SkePids, m \in SkeMsgInputs, n \in SkeNonces, k \in SkePrivKeys :
        (m.flow = "upflow" /\ upflow(member[p], m, n, k).status = "ok") =>
            /\ upflow(member[p], m, n, k).msg.members = m.members
            /\ upflow(member[p], m, n, k).msg.nonces = Append(m.nonces, n)
            /\ upflow(member[p], m, n, k).msg.pubKeys = Append(m.pubKeys, publickey(k))
            /\ upflow(member[p], m, n, k).msg.source = p
            /\ indexOf(m.members, p) # Len(m.members) - 1 =>
                 /\ upflow(member[p], m, n, k).msg.flow = "upflow"
                 /\ upflow(member[p], m, n, k).msg.dest
                      = m.members[indexOf(m.members, p) + 2]
                 /\ upflow(member[p], m, n, k).msg.sessionSignature = NullSig
                 /\ upflow(member[p], m, n, k).self.sessionId = member[p].sessionId
                 /\ upflow(member[p], m, n, k).self.authenticatedMembers
                      = member[p].authenticatedMembers
            /\ indexOf(m.members, p) = Len(m.members) - 1 =>
                 /\ upflow(member[p], m, n, k).msg.flow = "downflow"
                 /\ upflow(member[p], m, n, k).msg.dest = <<>>
                 /\ upflow(member[p], m, n, k).self.sessionId
                      = computeSid(m.members, Append(m.nonces, n))
                 /\ upflow(member[p], m, n, k).msg.sessionSignature =
                      smallrsasign(
                          sha256(p \o publickey(k) \o n
                                   \o computeSid(m.members, Append(m.nonces, n))),
                          member[p].staticPrivKey)
                 /\ upflow(member[p], m, n, k).self.authenticatedMembers =
                      [i \in 1 .. Len(m.members) |->
                          IF m.members[i] = p THEN "true" ELSE "false"]

\* an upflow message for three members is in flight: the second member
\* passes it on to the third, and the third would broadcast
C19_Witness ==
    \E d \in net, n \in SkeNonces, k \in SkePrivKeys :
        /\ d.msg.flow = "upflow"
        /\ Len(d.msg.members) = 3
        /\ d.to = d.msg.members[2]
        /\ upflow(member[d.to], d.msg, n, k).status = "ok"
        /\ upflow(member[d.to], d.msg, n, k).msg.dest = d.msg.members[3]
        /\ upflow(member[d.msg.members[3]], d.msg, n, k).status = "ok"
        /\ upflow(member[d.msg.members[3]], d.msg, n, k).msg.flow = "downflow"

\* the positions from 1 of the members that are in the list E
excludedPositions(self, E) ==
    {i \in 1 .. Len(self.members) : indexOf(E, self.members[i]) >= 0}

\* a list without the entries at the given positions
dropPositions(arr, positions) ==
    LET keep(i) == i \notin positions
        RECURSIVE from(_)
        from(i) == IF i > Len(arr) THEN <<>>
                   ELSE IF keep(i) THEN <<arr[i]>> \o from(i + 1)
                   ELSE from(i + 1)
    IN from(1)

\* C20: after an exclude(E) call that succeeds, E a list of distinct
\* participants: members is the former list without those of E, in the same
\* order; nonces and ephemeralPubKeys are the former lists without the
\* entries at the positions of the excluded members; oldEphemeralKeys holds,
\* for each e of E, the ephemeral public key and the authenticated flag the
\* member had for e before the call; sessionId is the session id of the new
\* members and nonces and is not the former sessionId; authenticatedMembers
\* is true for the member and false for all others; the message returned is
\* a downflow broadcast from the member with the new lists and the member's
\* signature over the new session.
C20_ExcludeResult ==
    \A p \in SkePids, E \in SkePidLists :
        (noDuplicatesInList(E) /\ exclude(member[p], E).status = "ok") =>
            /\ exclude(member[p], E).self.members
                 = dropPositions(member[p].members, excludedPositions(member[p], E))
            /\ exclude(member[p], E).self.nonces
                 = dropPositions(member[p].nonces, excludedPositions(member[p], E))
            /\ exclude(member[p], E).self.ephemeralPubKeys
                 = dropPositions(member[p].ephemeralPubKeys,
                                 excludedPositions(member[p], E))
            /\ \A i \in excludedPositions(member[p], E) :
                 /\ member[p].members[i] \in DOMAIN exclude(member[p], E).self.oldEphemeralKeys
                 /\ exclude(member[p], E).self.oldEphemeralKeys[member[p].members[i]].pub
                      = (IF truthy(at(member[p].ephemeralPubKeys, i - 1))
                           THEN member[p].ephemeralPubKeys[i] ELSE NullStr)
                 /\ exclude(member[p], E).self.oldEphemeralKeys[member[p].members[i]].authenticated
                      = (IF i <= Len(member[p].authenticatedMembers)
                              /\ member[p].authenticatedMembers[i] = "true"
                           THEN "true" ELSE "false")
            /\ exclude(member[p], E).self.sessionId
                 = computeSid(exclude(member[p], E).self.members,
                              exclude(member[p], E).self.nonces)
            /\ exclude(member[p], E).self.sessionId # member[p].sessionId
            /\ exclude(member[p], E).self.authenticatedMembers =
                 [i \in 1 .. Len(exclude(member[p], E).self.members) |->
                     IF exclude(member[p], E).self.members[i] = p THEN "true" ELSE "false"]
            /\ exclude(member[p], E).msg =
                 [source |-> p, dest |-> <<>>, flow |-> "downflow",
                  members |-> exclude(member[p], E).self.members,
                  nonces |-> exclude(member[p], E).self.nonces,
                  pubKeys |-> exclude(member[p], E).self.ephemeralPubKeys,
                  sessionSignature |->
                      smallrsasign(
                          sha256(p \o member[p].ephemeralPubKey \o member[p].nonce
                                   \o exclude(member[p], E).self.sessionId),
                          member[p].staticPrivKey)]

\* C21: right after a join(newMembers) or an exclude(excludeMembers) call
\* that succeeds at a member holding a session, the member's
\* authenticatedMembers has one entry for each of its members, true for the
\* member itself and false for all others, and its sessionId is not the id
\* of the session it held before the call.
C21_MembershipChangeResetsSession ==
    \A p \in SkePids, L \in SkePidLists :
        truthy(member[p].sessionId) =>
            /\ join(member[p], L).status = "ok" =>
                 /\ join(member[p], L).self.authenticatedMembers =
                      [i \in 1 .. Len(join(member[p], L).self.members) |->
                          IF join(member[p], L).self.members[i] = p
                            THEN "true" ELSE "false"]
                 /\ join(member[p], L).self.sessionId # member[p].sessionId
            /\ exclude(member[p], L).status = "ok" =>
                 /\ exclude(member[p], L).self.authenticatedMembers =
                      [i \in 1 .. Len(exclude(member[p], L).self.members) |->
                          IF exclude(member[p], L).self.members[i] = p
                            THEN "true" ELSE "false"]
                 /\ exclude(member[p], L).self.sessionId # member[p].sessionId

\* C26: for every accepted message m and every reader r of m, pre_ruId(m, r)
\* is the latest message of author r among the strict causal ancestors of m,
\* and null exactly when r has authored none of them, whatever the readers
\* of the messages between that ancestor and m.
C26_ContextIsLatestByReader ==
    \A m \in Accepted(transcript) :
        \A r \in transcript.messages[m].readers :
            LET byR == {a \in Ancestors(transcript, m) : author(transcript, a) = r}
            IN /\ r \in DOMAIN pre_ruId(transcript, m)
               /\ pre_ruId(transcript, m)[r] =
                    (IF byR = {} THEN NullM
                     ELSE CHOOSE a \in byR :
                            \A b \in byR :
                                transcript.authorIndex[b] <= transcript.authorIndex[a])

\* C27 as stated: for every accepted message m and every parent p of m,
\* author(m) is one of the readers of p.
C27_AuthorIsReaderOfParents ==
    \A m \in Accepted(transcript) :
        \A p \in pre(transcript, m) :
            author(transcript, m) \in transcript.messages[p].readers

\* C27: for every accepted message m and every parent p of m, author(m) is
\* the author of p or one of the readers of p.
C27_AuthorSeesParents ==
    \A m \in Accepted(transcript) :
        \A p \in pre(transcript, m) :
            /\ p \in Accepted(transcript)
            /\ author(transcript, m)
                 \in {author(transcript, p)} \cup transcript.messages[p].readers

\* a message with two parents has been accepted, one by its own author and
\* one by another author who had the author among the readers
C27_Witness ==
    \E m \in Accepted(transcript) :
        \E p, q \in pre(transcript, m) :
            /\ author(transcript, p) = author(transcript, m)
            /\ author(transcript, q) # author(transcript, m)
            /\ author(transcript, m) \in transcript.messages[q].readers

\* C28: for every accepted message m, m is not among its own parents, the
\* author of m is not among the readers of m, and no two different parents
\* of m have the same author.
C28_MessageWellFormed ==
    \A m \in Accepted(transcript) :
        /\ m \notin pre(transcript, m)
        /\ author(transcript, m) \notin transcript.messages[m].readers
        /\ \A p, q \in pre(transcript, m) :
              p # q => author(transcript, p) # author(transcript, q)

\* a message with readers and with two parents has been accepted after its
\* author had sent another message
C28_Witness ==
    \E m \in Accepted(transcript) :
        /\ transcript.messages[m].readers # {}
        /\ Cardinality(pre(transcript, m)) = 2
        /\ transcript.authorIndex[m] > 0

\* C29: add(msg) for a message that passes the earlier checks and has a
\* parent of which its author is neither the author nor a reader is rejected
\* with the error for secret parents and no other error, and leaves the
\* transcript as it was and not poisoned.
C29_SecretParentsError ==
    \A msg \in MsgInputs(transcript) :
        (/\ msg.mId # NullM
         /\ msg.mId \notin msg.parents
         /\ ~has(transcript, msg.mId)
         /\ msg.author # NullU
         /\ msg.author \notin msg.readers
         /\ msg.parents \subseteq Accepted(transcript)
         /\ \E p \in msg.parents :
               msg.author \notin {author(transcript, p)} \cup transcript.messages[p].readers)
        => /\ add(transcript, msg).status = "error"
           /\ add(transcript, msg).err = "secret parents referenced"
           /\ add(transcript, msg).self = transcript
           /\ ~add(transcript, msg).self.fubar

\* the signature the source of message m makes over the member's view of the
\* session once the member has taken m: the ephemeral public key and the
\* nonce at the position of the source, and the session id
viewSignature(self, m) ==
    LET pos == indexOf(self.members, m.source)
    IN smallrsasign(
           sha256(m.source \o at(self.ephemeralPubKeys, pos) \o at(self.nonces, pos)
                    \o self.sessionId),
           staticPrivKeyOf(m.source))

\* C30: a downflow message is accepted by a receiver only with the signature
\* that its source made over the source's id, the ephemeral public key and
\* the nonce the receiver holds at the position of the source, and the
\* receiver's session id; with a signature made by another participant, or
\* over another session id, nonce or ephemeral key, the call fails in the
\* authentication of the member and the source is not marked authenticated.
C30_OnlyOwnSignatureVerifies ==
    \A p \in SkePids, d \in net :
        d.msg.flow = "downflow" =>
            \A sig \in SkeSignatures(d.msg) :
                LET out == downflow(member[p], [d.msg EXCEPT !.sessionSignature = sig])
                    pos == indexOf(out.self.members, d.msg.source)
                IN /\ out.status = "ok" => sig = viewSignature(out.self, d.msg)
                   /\ sig # d.msg.sessionSignature =>
                        /\ out.status = "error"
                        /\ out.err = "Authentication of member failed"
                        /\ (pos >= 0 /\ out.self.authenticatedMembers[pos + 1] = "true")
                             => /\ member[p].sessionId = out.self.sessionId
                                /\ member[p].authenticatedMembers[pos + 1] = "true"

\* a member is handed a broadcast in flight once with the signature of its
\* source, which it accepts, and once with a signature the source made over
\* another nonce, which fails the authentication
C30_Witness ==
    \E d \in net :
        /\ d.msg.flow = "downflow"
        /\ d.to \in SkePids
        /\ downflow(member[d.to], d.msg).status = "ok"
        /\ d.msg.sessionSignature \in SkeSignatures(d.msg)
        /\ \E sig \in SkeSignatures(d.msg) :
              /\ sig.key = staticPrivKeyOf(d.msg.source)
              /\ sig # d.msg.sessionSignature
              /\ downflow(member[d.to], [d.msg EXCEPT !.sessionSignature = sig]).err
                   = "Authentication of member failed"

(***************************************************************************)
(* Properties of the TLV codec.                                            *)
(***************************************************************************)
\* C25: decoding the bytes of encodeTLV(t, v) followed by the bytes r gives
\* the type t, the value v (null when v has no bytes) and the rest r, for
\* every 16-bit type t and every value v of fewer than 2^16 bytes; decoding
\* a unit that has fewer bytes left than its length field says raises
\* MalformedTLV.
C25_TlvRoundTrip ==
    tlv.pc = "decoded" =>
        IF tlv.cut
          THEN tlv.out.status = "MalformedTLV"
          ELSE /\ tlv.out.status = "ok"
               /\ tlv.out.type = tlv.type
               /\ tlv.out.value = (IF tlv.value = <<>> THEN NullBytes ELSE tlv.value)
               /\ tlv.out.rest = tlv.rest

\* a unit with a type and a length that both need the high byte has been
\* decoded with bytes following it
C25_Witness ==
    /\ tlv.pc = "decoded"
    /\ ~tlv.cut
    /\ tlv.type > 255
    /\ Len(tlv.value) > 255
    /\ tlv.rest # <<>>
    /\ tlv.out.status = "ok"

(***************************************************************************)
(* Properties of the message log.                                          *)
(***************************************************************************)
\* C22 as stated: getSubscriberFor with more than one parent transcript
\* raises an error and leaves the log unchanged; with no parent transcript,
\* or with one that was subscribed earlier, it succeeds.
C22_SubscribeSucceedsAfterParent ==
    \A tscr \in LogTs \ DOMAIN log.transcriptParents, parents \in LogParentMaps :
        LET out == getSubscriberFor(log, tscr, parents)
        IN /\ Len(parents) > 1 => out.status # "ok" /\ out.self = log
           /\ (Len(parents) = 0
               \/ (Len(parents) = 1 /\ parents[1].tscr \in DOMAIN log.transcriptParents))
              => out.status = "ok"

\* C22: getSubscriberFor with more than one parent transcript raises an
\* error and leaves the log unchanged; with no parent transcript it
\* succeeds; with one parent transcript it succeeds when the parent was
\* subscribed earlier and the latest payload messages of the parent at or
\* before the given mIds are in the log, and otherwise it raises an error
\* and leaves the log unchanged; a success records the transcript as the
\* last subscribed one and changes neither the sequence nor its parents.
C22_SubscribeAtMostOneParent ==
    \A tscr \in LogTs \ DOMAIN log.transcriptParents, parents \in LogParentMaps :
        LET out == getSubscriberFor(log, tscr, parents)
            ready == \/ Len(parents) = 0
                     \/ /\ Len(parents) = 1
                        /\ parents[1].tscr \in DOMAIN log.transcriptParents
                        /\ \A m \in resolveEarlier(parents[1].tscr, parents[1].mIds) :
                              logHas(log, m)
        IN /\ Len(parents) > 1 => out.status = "Error"
           /\ Len(parents) <= 1 => (out.status = "ok" <=> ready)
           /\ out.status # "ok" => out.self = log
           /\ out.status = "ok" =>
                 /\ out.self.lastTranscript = tscr
                 /\ tscr \in DOMAIN out.self.transcriptParents
                 /\ out.self.seq = log.seq
                 /\ out.self.parents = log.parents
                 /\ out.self.messageIndex = log.messageIndex

\* a subscription with two parent transcripts has just been rejected by a
\* log that holds a message and has a transcript subscribed
C22_Witness ==
    /\ logResult = [op |-> "getSubscriberFor", status |-> "Error"]
    /\ log.lastTranscript # NullT
    /\ log.seq # <<>>

\* the messages of a sequence of mIds that are payload
payloadOf(mIds) ==
    LET keep(m) == m \notin logIgnored IN SelectSeq(mIds, keep)

\* C23: the sequence of the log is the sequence of the delivered mIds
\* without the ignored ones, in the order of delivery; no mId is in it
\* twice; the index of an mId is its place in the sequence and never changes
\* once it is assigned; the observers have been notified once for every
\* entry, in the order of the sequence.
C23_LogAppendOnly ==
    /\ [](/\ log.seq = payloadOf(logDelivered)
          /\ \A i, j \in 1 .. Len(log.seq) : log.seq[i] = log.seq[j] => i = j
          /\ DOMAIN log.messageIndex = {log.seq[i] : i \in 1 .. Len(log.seq)}
          /\ \A i \in 1 .. Len(log.seq) : logIndexOf(log, log.seq[i]) = i - 1
          /\ log.updates = [i \in 1 .. Len(log.seq) |-> [rIdx |-> 0, elem |-> log.seq[i]]])
    /\ [][/\ \A m \in DOMAIN log.messageIndex :
               logIndexOf(log', m) = logIndexOf(log, m)
          /\ SubSeq(log'.seq, 1, Len(log.seq)) = log.seq
          /\ SubSeq(log'.updates, 1, Len(log.updates)) = log.updates]_vars

\* two payload messages of two transcripts are in the log, and an ignored
\* message was delivered as well
C23_Witness ==
    /\ Len(log.seq) = 2
    /\ Len(logDelivered) = 3
    /\ log.seq[1] = 4
    /\ log.seq[2] \in tscrMsgs("T1")
    /\ logDelivered[2] \in logIgnored

\* the transcript that holds a message
tscrOf(mId) == CHOOSE tscr \in LogTs : mId \in tscrMsgs(tscr)

\* C24: the parents the log has for a message of a transcript are the
\* latest payload messages of that transcript before it; when there are
\* none and the transcript was subscribed with a parent transcript, they are
\* the frontier that was resolved for the transcript at its subscription;
\* when there are none and the transcript has no parent transcript, they are
\* empty.
C24_LogParents ==
    \A i \in 1 .. Len(log.seq) :
        LET m == log.seq[i]
            tscr == tscrOf(m)
            own == resolveEarlier(tscr, tscrPre(m))
        IN /\ tscr \in DOMAIN logSubscribed
           /\ logParents(log, m) =
                 IF own # {} THEN own
                 ELSE IF logSubscribed[tscr].parent # NullT
                   THEN logSubscribed[tscr].frontier
                 ELSE {}

\* the first message of a transcript that was subscribed with a parent
\* transcript has the two latest payload messages of the parent as parents
C24_Witness ==
    /\ logHas(log, 4)
    /\ logParents(log, 4) = {1, 2}
    /\ logSubscribed["T2"].parent = "T1"

\* C31: for every index i of the log, indexOf(at(i)) is i and at(i - length)
\* is at(i); indexOf(m) is -1 exactly for the messages the log does not
\* have; the log stores as many parent sets as it has entries.
C31_LogIndexing ==
    /\ \A i \in 0 .. Len(log.seq) - 1 :
          /\ logIndexOf(log, logAt(log, i)) = i
          /\ logAt(log, i - Len(log.seq)) = logAt(log, i)
    /\ \A m \in LogMsgs : logIndexOf(log, m) = -1 <=> ~logHas(log, m)
    /\ Len(log.parents) = Len(log.seq)

\* a log of three entries that lacks a message
C31_Witness ==
    /\ Len(log.seq) = 3
    /\ \E m \in LogMsgs : ~logHas(log, m)
    /\ logAt(log, -1) = log.seq[3]
    /\ logAt(log, -3) = log.seq[1]

\* C39: every parent the log has for a message is itself in the log, at a
\* smaller index than the message.
C39_ParentsEarlierInLog ==
    \A i \in 1 .. Len(log.seq) :
        \A p \in logParents(log, log.seq[i]) :
            /\ logHas(log, p)
            /\ logIndexOf(log, p) < i - 1

\* C32: by(uId) gives the sequence of the author and unacked() the sorted
\* unacked set, as a transcript without caches would compute them, after any
\* interleaving of add() calls with by() and unacked() calls.
C32_CachesTransparent ==
    /\ \A uId \in DOMAIN transcript.authorMessages :
          by(transcript, uId) = transcript.authorMessages[uId]
    /\ DOMAIN transcript.cacheBy \subseteq DOMAIN transcript.authorMessages
    /\ unacked(transcript) = sortMIds(transcript, transcript.unacked)

\* both caches are filled: the sequence of an author with two messages is
\* cached, that of the other author is not, and the unacked list is cached
C32_Witness ==
    /\ "A" \in DOMAIN transcript.cacheBy
    /\ Len(transcript.cacheBy["A"]) >= 2
    /\ "B" \in DOMAIN transcript.authorMessages
    /\ "B" \notin DOMAIN transcript.cacheBy
    /\ transcript.cacheUnacked # NullMIds
    /\ transcript.cacheUnacked # <<>>

\* C33: unacked() lists a message exactly when it is accepted and its
\* unackby set is not empty, in the order of the accept indexes; a message
\* added without readers is never listed.
C33_UnackedConsistent ==
    LET u == unacked(transcript)
        listed == {u[i] : i \in 1 .. Len(u)}
    IN /\ \A m \in 1 .. MaxMsgs + 1 :
             m \in listed <=> (has(transcript, m) /\ unackby(transcript, m) # {})
       /\ \A i, j \in 1 .. Len(u) :
             i < j => transcript.messageIndex[u[i]] < transcript.messageIndex[u[j]]
       /\ \A m \in DOMAIN transcript.messages :
             transcript.messages[m].readers = {} => m \notin listed

\* a transcript with a message without readers, a message acked by all its
\* readers and two messages still unacked
C33_Witness ==
    /\ Len(unacked(transcript)) >= 2
    /\ \E m \in DOMAIN transcript.messages : transcript.messages[m].readers = {}
    /\ \E m \in DOMAIN transcript.messages :
          /\ transcript.messages[m].readers # {}
          /\ unackby(transcript, m) = {}

\* C34: size() is the number of add() calls that succeeded and the length
\* of all(); min() is the set of the accepted messages without parents,
\* max() the set of those without successors; m is in suc(p) exactly when p
\* is in pre(m).
C34_GraphQueriesConsistent ==
    /\ [](/\ size(transcript) = Len(all(transcript))
          /\ size(transcript) = Cardinality(Accepted(transcript))
          /\ {all(transcript)[i] : i \in 1 .. Len(all(transcript))} = Accepted(transcript)
          /\ DOMAIN transcript.successors = Accepted(transcript)
          /\ min(transcript) = {m \in Accepted(transcript) : pre(transcript, m) = {}}
          /\ max(transcript) = {m \in Accepted(transcript) :
                                   \A c \in Accepted(transcript) : m \notin pre(transcript, c)}
          /\ \A p, m \in Accepted(transcript) :
                m \in suc(transcript, p) <=> p \in pre(transcript, m))
    /\ [][size(transcript') =
             size(transcript) + (IF result'.status = "ok" THEN 1 ELSE 0)]_vars

\* a transcript of at least three messages, one of them with two successors
C34_Witness ==
    /\ size(transcript) >= 3
    /\ min(transcript) # max(transcript)
    /\ \E p \in Accepted(transcript) : Cardinality(suc(transcript, p)) >= 2

aligned(self) ==
    LET myPos == indexOf(self.members, self.id)
    IN /\ Len(self.nonces) <= Len(self.members)
       /\ Len(self.ephemeralPubKeys) <= Len(self.members)
       /\ myPos >= 0
       /\ at(self.nonces, myPos) = self.nonce
       /\ at(self.ephemeralPubKeys, myPos) = self.ephemeralPubKey

\* C36: after an upflow(message) or downflow(message) call that succeeds,
\* for any message that passes the checks of the call, the member's nonces
\* and ephemeralPubKeys are no longer than its members and hold the
\* member's own nonce and ephemeral public key at its own position.
C36_PositionsAligned ==
    \A p \in SkePids, m \in SkeMsgInputs :
        /\ \A n \in SkeNonces, k \in SkePrivKeys :
              LET out == upflow(member[p], m, n, k)
              IN out.status = "ok" => aligned(out.self)
        /\ LET out == downflow(member[p], m)
           IN out.status = "ok" => aligned(out.self)

\* C37: a downflow(message) call that succeeds changes the member's session
\* only when the member is in the member list of the message and the nonce
\* at its position is the member's own nonce; a downflow recorded from an
\* earlier session and replayed to a member that holds a newer session
\* changes neither its sessionId nor its members nor its
\* authenticatedMembers.
C37_NoReplayedSession ==
    \A p \in SkePids, m \in SkeRecorded \cup {d.msg : d \in net} :
        LET out == downflow(member[p], m)
            myPos == indexOf(m.members, p)
        IN (out.status = "ok" /\ out.self.sessionId # member[p].sessionId) =>
              /\ myPos >= 0
              /\ at(m.nonces, myPos) = member[p].nonce

\* what a member for which isSessionAcknowledged() is true holds: the
\* session id of its members and nonces, and a true flag at the position of
\* each of its members (the flag downflow() sets when it has verified the
\* signature of that member)
ackedConsistently(self) ==
    isSessionAcknowledged(self) = "true" =>
        /\ self.sessionId = computeSid(self.members, self.nonces)
        /\ \A i \in 1 .. Len(self.members) :
              self.members[i] # self.id =>
                  /\ i <= Len(self.authenticatedMembers)
                  /\ self.authenticatedMembers[i] = "true"

\* C35: whenever isSessionAcknowledged() is true at a member, after the
\* calls of a run and a commit(), join() or exclude() call that succeeds,
\* the member has verified a session signature of each of its other members
\* over its sessionId, and its sessionId is the session id of its members
\* and nonces.
C35_AcknowledgedMeansVerified ==
    \A p \in SkePids :
        /\ ackedConsistently(member[p])
        /\ \A L \in SkePidLists :
              /\ LET out == join(member[p], L)
                 IN out.status = "ok" => ackedConsistently(out.self)
              /\ LET out == exclude(member[p], L)
                 IN out.status = "ok" => ackedConsistently(out.self)
              /\ \A n \in SkeNonces, k \in SkePrivKeys :
                    LET out == commit(member[p], L, n, k)
                    IN out.status = "ok" => ackedConsistently(out.self)

\* C38: a member sends a signed session broadcast for a session at most
\* once, and a member that holds a session (which it has adopted in a
\* downflow() call, or made itself as the last of an upflow or by exclude())
\* has sent exactly one for it.
C38_OneAckPerSession ==
    \A p \in SkePids :
        /\ \A i, j \in 1 .. Len(skeAcks[p]) :
              skeAcks[p][i] = skeAcks[p][j] => i = j
        /\ truthy(member[p].sessionId) =>
              \E i \in 1 .. Len(skeAcks[p]) : skeAcks[p][i] = member[p].sessionId

=============================================================================
